---- MODULE Spec2Model ----
(***************************************************************************)
(* Frame-buffer ownership core of the STM32N6570-DK camera / display       *)
(* application: the capture ring (app_buffers.h, app_buffers.c), the       *)
(* pipe-1 frame-complete callback (app_cam.c), the camera layer of the     *)
(* LTDC (app_lcd.c) and the startup sequences that bring them up           *)
(* (app_threadx.c, app.c).                                                 *)
(*                                                                         *)
(* Spec    : startup followed by the running system (capture hardware      *)
(*           writing frames, frame events delivered to the callback, the   *)
(*           callback executed statement by statement).                    *)
(* SpecApi : the buffer API of app_buffers.h / app_buffers.c applied to    *)
(*           arbitrary ring states and arbitrary int arguments.            *)
(* SpecIsp : vsync callbacks and the ISP thread of app_cam.c, from the     *)
(*           creation of the semaphore on; SpecIspFair adds the fairness   *)
(*           of the thread's scheduling.                                   *)
(* SpecUi  : the overlay calls of app_ui.c on the UI double buffer.        *)
(* SpecLoad: the CPU load sampler of app_ui.c with the idle hooks and the  *)
(*           two clocks it reads.                                          *)
(* SpecConc: UI_Update on the UI thread with UI_SetVisible(0) called by    *)
(*           another thread.                                               *)
(* SpecCalls: the index setters and the LCD functions, called in any order *)
(*           with any argument.                                            *)
(* SpecOverlay: the UI thread's calls with the clocks moving between them, *)
(*           from reset or with the sampler ticking every 10 ms.           *)
(* SpecIdle: the idle-measure thread and the threads that preempt it.      *)
(* SpecRun : the running system: frame and vsync callbacks of both pipes   *)
(*           and a thread reading the two ring indices.                    *)
(***************************************************************************)
EXTENDS Integers, Sequences, FiniteSets, TLC

\* ------------------------------------------------------------------------
\* Bounds of the model
\* ------------------------------------------------------------------------
MaxDisplayDelay == 2    \* largest DISPLAY_DELAY explored (N = delay + 2)
MaxFrames == 5          \* pipe-1 frame-complete callbacks per run
MaxPixel == 1           \* slot contents: 0 = all bytes zero, 1.. = frame data
MaxIdxOffset == 2       \* int arguments tried around the range [0, N)
MaxCycles == 2          \* SpecApi: next() applied up to MaxCycles * N times
MaxInitCalls == 2       \* SpecApi: calls of Buffer_Init per run
MaxUiFrames == 3        \* SpecUi: overlay frames drawn per run
MaxVsyncs == 3          \* SpecIsp: pipe-1 vsync callbacks per run
MaxSamples == 2         \* SpecLoad: sampler ticks per run
MaxClockSteps == 2      \* SpecLoad: advances of the clocks per run
MaxOtherCalls == 1      \* SpecConc: calls of UI_SetVisible by another thread
MaxReads == 2           \* SpecRun: pairs of index reads by a thread

\* ------------------------------------------------------------------------
\* Program constants
\* ------------------------------------------------------------------------
DISPLAY_DELAY == 1                     \* app_config.h:40
INT_MAX == 2147483647                  \* int is 32 bits wide on the target
INT_MIN == (-INT_MAX) - 1

DCMIPP_PIPE1 == "DCMIPP_PIPE1"
DCMIPP_PIPE2 == "DCMIPP_PIPE2"
Pipes == {DCMIPP_PIPE1, DCMIPP_PIPE2}

HAL_OK == "HAL_OK"
HAL_ERROR == "HAL_ERROR"
HalStatus == {HAL_OK, HAL_ERROR}

\* a pointer is a record naming the object it points into; NULL points nowhere
NULL == [region |-> "NULL", slot |-> 0]

VARIABLES
  display_delay,            \* build configuration: DISPLAY_DELAY
  entry,                    \* which startup routine runs
  boot,                     \* position in the startup routine
  halted,                   \* the system has stopped (failed assertion)
  lcd_initialized,          \* app_lcd.c static flag
  ltdc_layer0_addr,         \* frame buffer address configured on LTDC layer 0
  dcmipp_pipe1_addr,        \* memory address the capture hardware writes to
  capture_on,               \* pipe 1 is capturing (CMW_CAMERA_Start succeeded)
  camera_display_buffers,   \* contents of the N capture slots
  ui_buffer,                \* contents of the UI foreground buffer
  camera_display_idx,
  camera_capture_idx,
  cb_pc,                    \* position inside the frame-complete callback
  cb_pipe,                  \* pipe argument of the latest frame event
  hdcmipp,                  \* local: TRUE iff the DCMIPP handle is non-NULL
  next_disp,                \* local of the callback
  next_capt,                \* local of the callback
  cb_redirect,              \* outcome of the redirect statement, this invocation
  cb_commit_issued,         \* LCD_ReloadCameraLayer was called, this invocation
  cb_commit_ret,            \* its return value
  cb_published,             \* index setters executed in this invocation
  frames,                   \* completed pipe-1 frame-complete callbacks
  api_op,                   \* SpecApi: latest API operation applied
  api_arg,                  \* SpecApi: int argument of the latest lookup
  api_ret,                  \* SpecApi: pointer returned by the latest lookup
  api_next,                 \* SpecApi: <<next display, next capture>> computed
  api_start,                \* SpecApi: <<display, capture>> when iteration began
  api_iter,                 \* SpecApi: number of next() applications since
  api_inits,                \* SpecApi: calls of Buffer_Init so far
  vsync_sem,                \* isp_ctx.vsync_sem: [created, count]
  isp_thread,               \* position of isp_thread_entry
  vs_pc,                    \* position inside the vsync callback
  vs_pipe,                  \* pipe argument of the latest vsync event
  vsyncs,                   \* pipe-1 vsync callbacks delivered
  isp_passes,               \* calls of CAM_IspUpdate by the ISP thread
  isp_pass_vsyncs,          \* value of vsyncs when the latest pass started
  g_ui_visible,             \* app_ui.c static
  g_ui_initialized,         \* app_ui.c static
  ui_display_idx,           \* front index of the UI double buffer
  ui_display_buffers,       \* contents of the two UI slots
  ltdc_layer1_addr,         \* frame buffer address committed to LTDC layer 1
  ltdc_layer1_reload,       \* address of the latest vertical-blanking reload
  ui_pc,                    \* position inside UI_Update / UI_SetVisible
  ui_op,                    \* UI call in progress, or the latest one
  ui_prev_op,               \* UI call that returned before ui_op began
  ui_buffer_ptr,            \* local ui_buffer of UI_Update / UI_SetVisible
  ui_front0,                \* ui_display_idx when ui_op began
  ui_log,                   \* statements ui_op has executed, in order
  ui_frame,                 \* overlay frames drawn so far
  ui_hide_mark,             \* ui_frame at the latest UI_SetVisible(0); -1: none
  boot_errors,              \* startup calls that returned a failure status
  DWT_CYCCNT,               \* DWT->CYCCNT, the free-running cycle counter
  uwTick,                   \* HAL_GetTick(): milliseconds since reset
  g_cpu_load,               \* app_ui.c static: history[0..7]
  g_idle_cycles_total,      \* app_ui.c static
  g_idle_enter_cycle,       \* app_ui.c static
  g_in_idle,                \* app_ui.c static
  g_last_history_update_tick, \* app_ui.c static
  idle_pc,                  \* position of the caller of the idle hooks
  exit_cycle,               \* local of UI_IdleThread_Exit
  hook_caller,              \* who calls the idle hooks
  hook_noop,                \* the latest hook call, if it had nothing to do
  load_info,                \* outputs of the latest UI_CPULoad_GetInfo
  samples,                  \* calls of UI_CPULoad_Update so far
  clock_steps,              \* advances of the clocks so far
  cyc_wraps,                \* times DWT->CYCCNT passed 2^32
  idle_wraps,               \* times g_idle_cycles_total passed 2^32
  ms_since_update,          \* ms elapsed since g_last_history_update_tick
  decimations,              \* sampler ticks that decimated the history
  idle_held_cycles,         \* cycles the idle-measure thread held the CPU
  reader,                   \* a thread reading the two ring indices
  api_status,               \* int returned by the latest API call
  sv_pc,                    \* position inside UI_SetVisible on another thread
  sv_buffer_ptr,            \* local ui_buffer of that call
  sv_calls,                 \* calls of UI_SetVisible made by another thread
  preempted                 \* UI call suspended while the other thread runs

vars == <<display_delay, entry, boot, halted, lcd_initialized, ltdc_layer0_addr,
          dcmipp_pipe1_addr, capture_on, camera_display_buffers, ui_buffer,
          camera_display_idx, camera_capture_idx, cb_pc, cb_pipe, hdcmipp,
          next_disp, next_capt, cb_redirect, cb_commit_issued, cb_commit_ret,
          cb_published, frames, api_op, api_arg, api_ret, api_next,
          api_start, api_iter, api_inits, vsync_sem, isp_thread, vs_pc,
          vs_pipe, vsyncs, isp_passes, isp_pass_vsyncs, g_ui_visible,
          g_ui_initialized, ui_display_idx, ui_display_buffers,
          ltdc_layer1_addr, ltdc_layer1_reload, ui_pc, ui_op, ui_prev_op,
          ui_buffer_ptr, ui_front0, ui_log, ui_frame, ui_hide_mark,
          boot_errors, DWT_CYCCNT, uwTick, g_cpu_load, g_idle_cycles_total,
          g_idle_enter_cycle, g_in_idle, g_last_history_update_tick, idle_pc,
          exit_cycle, hook_caller, hook_noop, load_info, samples,
          clock_steps, cyc_wraps, idle_wraps, ms_since_update, decimations,
          idle_held_cycles, reader, api_status, sv_pc, sv_buffer_ptr,
          sv_calls, preempted>>

hwVars == <<lcd_initialized, ltdc_layer0_addr, dcmipp_pipe1_addr, capture_on>>
bootVars == <<entry, boot, halted, boot_errors>>
cbVars == <<cb_pc, cb_pipe, hdcmipp, next_disp, next_capt, cb_redirect,
            cb_commit_issued, cb_commit_ret, cb_published, frames>>
apiVars == <<api_op, api_arg, api_ret, api_next, api_start, api_iter,
             api_inits, api_status>>
ispVars == <<vsync_sem, isp_thread, vs_pc, vs_pipe, vsyncs, isp_passes,
             isp_pass_vsyncs>>
uiVars == <<g_ui_visible, g_ui_initialized, ui_display_idx, ui_display_buffers,
            ltdc_layer1_addr, ltdc_layer1_reload, ui_pc, ui_op, ui_prev_op,
            ui_buffer_ptr, ui_front0, ui_log, ui_frame, ui_hide_mark>>
loadVars == <<DWT_CYCCNT, uwTick, g_cpu_load, g_idle_cycles_total,
              g_idle_enter_cycle, g_in_idle, g_last_history_update_tick,
              idle_pc, exit_cycle, hook_caller, hook_noop, load_info,
              samples, clock_steps, cyc_wraps, idle_wraps, ms_since_update,
              decimations, idle_held_cycles>>
concVars == <<sv_pc, sv_buffer_ptr, sv_calls, preempted>>
readerVars == <<reader>>

\* ------------------------------------------------------------------------
\* app_config.h, app_buffers.h
\* ------------------------------------------------------------------------
DISPLAY_BUFFER_NB == display_delay + 2

Slots == 0 .. (DISPLAY_BUFFER_NB - 1)
Pixels == 0 .. MaxPixel

\* (unsigned)_idx of a 32-bit int, as <<bit 31, bits 30..0>>: a negative
\* int converts to _idx + 2^32, whose top bit is set.
ToUnsigned(i) == IF i < 0 THEN <<1, i - INT_MIN>> ELSE <<0, i>>

\* u >= n for an unsigned u and a constant 0 <= n <= INT_MAX
UnsignedGE(u, n) == u[1] = 1 \/ u[2] >= n

\* camera_display_buffers[_idx] decayed to a pointer to that row
SlotPtr(i) == [region |-> "camera_display_buffers", slot |-> i]

Buffer_GetCameraDisplayIndex == camera_display_idx

\* mutant: the capture getter returns the display index
Buffer_GetCameraCaptureIndex_ReadsDisplay == camera_display_idx

Buffer_GetCameraCaptureIndex == camera_capture_idx

\* mutant: the wrap-around is left out
Buffer_GetNextCameraDisplayIndex_NoWrap == camera_display_idx + 1

Buffer_GetNextCameraDisplayIndex ==
  (camera_display_idx + 1) % DISPLAY_BUFFER_NB

\* mutant: the wrap-around is left out
Buffer_GetNextCameraCaptureIndex_NoWrap == camera_capture_idx + 1

\* mutant: the ring is taken one slot short (DISPLAY_DELAY + 1)
Buffer_GetNextCameraCaptureIndex_ShortRing ==
  (camera_capture_idx + 1) % (DISPLAY_BUFFER_NB - 1)

Buffer_GetNextCameraCaptureIndex ==
  (camera_capture_idx + 1) % DISPLAY_BUFFER_NB

\* mutant: the index is compared as a signed int
Buffer_GetCameraDisplayBuffer_SignedCheck(idx) ==
  IF idx >= DISPLAY_BUFFER_NB THEN NULL ELSE SlotPtr(idx)

Buffer_GetCameraDisplayBuffer(idx) ==
  IF UnsignedGE(ToUnsigned(idx), DISPLAY_BUFFER_NB) THEN NULL
  ELSE SlotPtr(idx)

\* mutant: the range check compares signed values
Buffer_SetIndexRet_SignedCheck(idx) ==
  IF idx >= DISPLAY_BUFFER_NB THEN -1 ELSE 0

\* return value of the setter macros
Buffer_SetIndexRet(idx) ==
  IF UnsignedGE(ToUnsigned(idx), DISPLAY_BUFFER_NB) THEN -1 ELSE 0

Buffer_SetCameraDisplayIndex(idx) ==
  camera_display_idx' =
    IF Buffer_SetIndexRet(idx) = 0 THEN idx ELSE camera_display_idx

Buffer_SetCameraCaptureIndex(idx) ==
  camera_capture_idx' =
    IF Buffer_SetIndexRet(idx) = 0 THEN idx ELSE camera_capture_idx

\* ------------------------------------------------------------------------
\* app_buffers.c
\* ------------------------------------------------------------------------
\* mutant: the buffers are cleared but the indices are not reset
Buffer_Init_KeepsIndices ==
  /\ camera_display_buffers' = [i \in Slots |-> 0]
  /\ ui_buffer' = 0
  /\ UNCHANGED <<camera_display_idx, camera_capture_idx>>

Buffer_Init ==
  /\ camera_display_buffers' = [i \in Slots |-> 0]
  /\ ui_buffer' = 0
  /\ camera_display_idx' = 1
  /\ camera_capture_idx' = 0

\* ------------------------------------------------------------------------
\* app_lcd.c
\* ------------------------------------------------------------------------
\* Return value of LCD_Init. bsp_init, cfg0 and cfg1 are the outcomes of
\* BSP_LCD_InitEx and of the two BSP_LCD_ConfigLayer calls (TRUE = no error).
LCD_InitRet(bsp_init, cfg0, cfg1) ==
  IF lcd_initialized = 1 THEN 0
  ELSE IF ~bsp_init THEN -1
  ELSE IF Buffer_GetCameraDisplayBuffer(0) = NULL \/ ~cfg0 THEN -2
  ELSE IF ~cfg1 THEN -3
  ELSE 0

LCD_Init(bsp_init, cfg0, cfg1) ==
  IF lcd_initialized = 1
    THEN UNCHANGED <<lcd_initialized, ltdc_layer0_addr>>
    ELSE IF LCD_InitRet(bsp_init, cfg0, cfg1) = 0
      THEN /\ ltdc_layer0_addr' = Buffer_GetCameraDisplayBuffer(0)
           /\ lcd_initialized' = 1
      ELSE \* BSP_LCD_InitEx failed, or BSP_LCD_DeInit undid the layers
           /\ ltdc_layer0_addr' = NULL
           /\ lcd_initialized' = 0

\* LCD_DeInit: display off and BSP_LCD_DeInit, when the LCD is initialised
LCD_DeInit ==
  IF lcd_initialized = 1
    THEN /\ ltdc_layer0_addr' = NULL
         /\ lcd_initialized' = 0
    ELSE UNCHANGED <<lcd_initialized, ltdc_layer0_addr>>

\* mutant: the flag lcd_initialized is not looked at
LCD_ReloadCameraLayerRet_IgnoresInit(frame_buffer, set_st, reload_st) ==
  IF frame_buffer = NULL THEN -1
  ELSE IF set_st # HAL_OK THEN -2
  ELSE IF reload_st # HAL_OK THEN -3
  ELSE 0

\* Return value of LCD_ReloadCameraLayer. set_st and reload_st are the
\* statuses of HAL_LTDC_SetAddress_NoReload and HAL_LTDC_ReloadLayer.
LCD_ReloadCameraLayerRet(frame_buffer, set_st, reload_st) ==
  IF lcd_initialized = 0 \/ frame_buffer = NULL THEN -1
  ELSE IF set_st # HAL_OK THEN -2
  ELSE IF reload_st # HAL_OK THEN -3
  ELSE 0

\* The address register of layer 0 is written once SetAddress_NoReload
\* succeeds, whether or not the reload request that follows does.
LCD_ReloadCameraLayer(frame_buffer, set_st, reload_st) ==
  ltdc_layer0_addr' =
    IF LCD_ReloadCameraLayerRet(frame_buffer, set_st, reload_st) \in {0, -3}
      THEN frame_buffer
      ELSE ltdc_layer0_addr

\* ------------------------------------------------------------------------
\* app_cam.c
\* ------------------------------------------------------------------------
\* CAM_DisplayPipe_Start: start_ok is CMW_CAMERA_Start(...) == CMW_ERROR_NONE.
\* Either assertion failing stops the system.
CAM_DisplayPipe_Start(start_ok) ==
  LET buffer == Buffer_GetCameraDisplayBuffer(Buffer_GetCameraCaptureIndex)
  IN IF buffer # NULL /\ start_ok
       THEN /\ dcmipp_pipe1_addr' = buffer
            /\ capture_on' = TRUE
            /\ halted' = FALSE
       ELSE /\ UNCHANGED <<dcmipp_pipe1_addr, capture_on>>
            /\ halted' = TRUE

\* Statement order of the body of CMW_CAMERA_PIPE_FrameEventCallback.
FirstStep == "redirect"

\* mutant: the indices are published before the display commit
StepAfter_PublishFirst(step) ==
  CASE step = "redirect" -> "display_idx"
    [] step = "display_idx" -> "capture_idx"
    [] step = "capture_idx" -> "commit"
    [] step = "commit" -> "idle"

StepAfter(step) ==
  CASE step = "redirect" -> "commit"
    [] step = "commit" -> "display_idx"
    [] step = "display_idx" -> "capture_idx"
    [] step = "capture_idx" -> "idle"

\* leave statement `step`; the invocation returns after the last one
Advance(step) ==
  /\ cb_pc' = StepAfter(step)
  /\ frames' = IF StepAfter(step) = "idle" THEN frames + 1 ELSE frames

\* Entry: the pipe test, the handle and the two next indices.
FrameEvent_Entry(pipe, handle) ==
  /\ capture_on /\ ~halted
  /\ cb_pc = "idle"
  /\ frames < MaxFrames
  /\ cb_pipe' = pipe
  /\ IF pipe # DCMIPP_PIPE1
       THEN UNCHANGED <<cb_pc, hdcmipp, next_disp, next_capt, cb_redirect,
                        cb_commit_issued, cb_commit_ret, cb_published>>
       ELSE /\ hdcmipp' = handle
            /\ next_disp' = Buffer_GetNextCameraDisplayIndex
            /\ next_capt' = Buffer_GetNextCameraCaptureIndex
            /\ cb_pc' = FirstStep
            /\ cb_redirect' = "none"
            /\ cb_commit_issued' = FALSE
            /\ cb_commit_ret' = 0
            /\ cb_published' = {}
  /\ UNCHANGED <<display_delay, bootVars, hwVars, camera_display_buffers,
                 ui_buffer, camera_display_idx, camera_capture_idx, frames,
                 apiVars, ispVars, uiVars, loadVars, concVars, readerVars>>

\* if (hdcmipp != NULL) HAL_DCMIPP_PIPE_SetMemoryAddress(...); the status
\* the driver returns is not looked at.
FrameEvent_Redirect(st) ==
  /\ cb_pc = "redirect"
  /\ IF hdcmipp
       THEN /\ cb_redirect' = st
            /\ dcmipp_pipe1_addr' =
                 IF st = HAL_OK THEN Buffer_GetCameraDisplayBuffer(next_capt)
                                ELSE dcmipp_pipe1_addr
       ELSE /\ cb_redirect' = "no_handle"
            /\ UNCHANGED dcmipp_pipe1_addr
  /\ Advance("redirect")
  /\ UNCHANGED <<display_delay, bootVars, lcd_initialized, ltdc_layer0_addr,
                 capture_on, camera_display_buffers, ui_buffer,
                 camera_display_idx, camera_capture_idx, cb_pipe, hdcmipp,
                 next_disp, next_capt, cb_commit_issued, cb_commit_ret,
                 cb_published, apiVars, ispVars, uiVars, loadVars, concVars, readerVars>>

\* LCD_ReloadCameraLayer(Buffer_GetCameraDisplayBuffer(next_disp)); the
\* return value is not looked at.
FrameEvent_Commit(set_st, reload_st) ==
  /\ cb_pc = "commit"
  /\ LCD_ReloadCameraLayer(Buffer_GetCameraDisplayBuffer(next_disp),
                           set_st, reload_st)
  /\ cb_commit_issued' = TRUE
  /\ cb_commit_ret' =
       LCD_ReloadCameraLayerRet(Buffer_GetCameraDisplayBuffer(next_disp),
                                set_st, reload_st)
  /\ Advance("commit")
  /\ UNCHANGED <<display_delay, bootVars, lcd_initialized, dcmipp_pipe1_addr,
                 capture_on, camera_display_buffers, ui_buffer,
                 camera_display_idx, camera_capture_idx, cb_pipe, hdcmipp,
                 next_disp, next_capt, cb_redirect, cb_published, apiVars, ispVars, uiVars,
                 loadVars, concVars, readerVars>>

FrameEvent_PublishDisplay ==
  /\ cb_pc = "display_idx"
  /\ Buffer_SetCameraDisplayIndex(next_disp)
  /\ cb_published' = cb_published \cup {"display_idx"}
  /\ Advance("display_idx")
  /\ UNCHANGED <<display_delay, bootVars, hwVars, camera_display_buffers,
                 ui_buffer, camera_capture_idx, cb_pipe, hdcmipp, next_disp,
                 next_capt, cb_redirect, cb_commit_issued, cb_commit_ret,
                 apiVars, ispVars, uiVars, loadVars, concVars, readerVars>>

FrameEvent_PublishCapture ==
  /\ cb_pc = "capture_idx"
  /\ Buffer_SetCameraCaptureIndex(next_capt)
  /\ cb_published' = cb_published \cup {"capture_idx"}
  /\ Advance("capture_idx")
  /\ UNCHANGED <<display_delay, bootVars, hwVars, camera_display_buffers,
                 ui_buffer, camera_display_idx, cb_pipe, hdcmipp, next_disp,
                 next_capt, cb_redirect, cb_commit_issued, cb_commit_ret,
                 apiVars, ispVars, uiVars, loadVars, concVars, readerVars>>

\* The capture hardware, started in continuous mode by CMW_CAMERA_Start,
\* writes frame data into the slot its memory address register names. It
\* runs by DMA, also while the callback executes.
DCMIPP_WriteFrame(p) ==
  /\ capture_on /\ ~halted
  /\ dcmipp_pipe1_addr # NULL
  /\ camera_display_buffers' =
       [camera_display_buffers EXCEPT ![dcmipp_pipe1_addr.slot] = p]
  /\ UNCHANGED <<display_delay, bootVars, hwVars, ui_buffer,
                 camera_display_idx, camera_capture_idx, cbVars, apiVars, ispVars, uiVars,
                 loadVars, concVars, readerVars>>

\* Return value of CAM_Init: CMW_CAMERA_Init, then CAM_ConfigPipe for pipe 1
\* and for pipe 2 (TRUE = the call succeeded).
CAM_InitRet(cmw_ok, pipe1_ok, pipe2_ok) ==
  IF ~cmw_ok THEN -1
  ELSE IF ~pipe1_ok THEN -2
  ELSE IF ~pipe2_ok THEN -3
  ELSE 0

\* ------------------------------------------------------------------------
\* app_cam.c: vsync callback, ISP semaphore and ISP thread
\* ------------------------------------------------------------------------
\* tx_semaphore_create(&isp_ctx.vsync_sem, "isp_vsync", 0)
\* mutant: the semaphore is created with one instance available
CAM_InitIspSemaphore_InitialOne ==
  vsync_sem' = [created |-> TRUE, count |-> 1]

CAM_InitIspSemaphore ==
  vsync_sem' = [created |-> TRUE, count |-> 0]

\* tx_thread_create(..., isp_thread_entry, ..., TX_AUTO_START): the thread
\* is ready at the first statement of its loop
Thread_IspUpdate_Init ==
  isp_thread' = "tx_semaphore_get"

\* tx_semaphore_put on the counting semaphore: a thread suspended on it is
\* resumed with the instance, otherwise the count goes up by one. It never
\* suspends its caller.
tx_semaphore_put ==
  IF isp_thread = "suspended"
    THEN /\ isp_thread' = "CAM_IspUpdate"
         /\ UNCHANGED vsync_sem
    ELSE /\ vsync_sem' = [vsync_sem EXCEPT !.count = @ + 1]
         /\ UNCHANGED isp_thread

\* tx_semaphore_get(..., TX_WAIT_FOREVER): takes an instance, or suspends
\* the thread until tx_semaphore_put hands it one
tx_semaphore_get ==
  IF vsync_sem.count > 0
    THEN /\ vsync_sem' = [vsync_sem EXCEPT !.count = @ - 1]
         /\ isp_thread' = "CAM_IspUpdate"
    ELSE /\ isp_thread' = "suspended"
         /\ UNCHANGED vsync_sem

\* mutant: the signal is given for pipe 2 instead of pipe 1
VsyncPipeTest_Pipe2(pipe) == pipe = DCMIPP_PIPE2

\* mutant: the signal is given for every pipe
VsyncPipeTest_AnyPipe(pipe) == pipe \in Pipes

\* if (pipe == DCMIPP_PIPE1)
VsyncPipeTest(pipe) == pipe = DCMIPP_PIPE1

\* CMW_CAMERA_PIPE_VsyncEventCallback is entered in interrupt context
VsyncEvent_Entry(pipe) ==
  /\ capture_on /\ ~halted
  /\ vs_pc = "idle"
  /\ vsyncs < MaxVsyncs
  /\ vs_pipe' = pipe
  /\ vsyncs' = IF pipe = DCMIPP_PIPE1 THEN vsyncs + 1 ELSE vsyncs
  /\ vs_pc' = IF VsyncPipeTest(pipe) THEN "tx_semaphore_put" ELSE "idle"
  /\ UNCHANGED <<display_delay, bootVars, hwVars, camera_display_buffers,
                 ui_buffer, camera_display_idx, camera_capture_idx, cbVars,
                 apiVars, vsync_sem, isp_thread, isp_passes, isp_pass_vsyncs,
                 uiVars, loadVars, concVars, readerVars>>

\* mutant: the callback waits until the pending signal has been consumed
VsyncEvent_Put_WaitsWhileSet ==
  /\ vs_pc = "tx_semaphore_put"
  /\ vsync_sem.count = 0
  /\ tx_semaphore_put
  /\ vs_pc' = "idle"
  /\ UNCHANGED <<display_delay, bootVars, hwVars, camera_display_buffers,
                 ui_buffer, camera_display_idx, camera_capture_idx, cbVars,
                 apiVars, vs_pipe, vsyncs, isp_passes, isp_pass_vsyncs,
                 uiVars, loadVars, concVars, readerVars>>

\* tx_semaphore_put(&isp_ctx.vsync_sem); return HAL_OK;
VsyncEvent_Put ==
  /\ vs_pc = "tx_semaphore_put"
  /\ tx_semaphore_put
  /\ vs_pc' = "idle"
  /\ UNCHANGED <<display_delay, bootVars, hwVars, camera_display_buffers,
                 ui_buffer, camera_display_idx, camera_capture_idx, cbVars,
                 apiVars, vs_pipe, vsyncs, isp_passes, isp_pass_vsyncs,
                 uiVars, loadVars, concVars, readerVars>>

\* The ISP thread runs once the kernel schedules threads (the startup
\* routine has returned) and while no interrupt handler is executing.
IspThreadRuns == boot = "running" /\ ~halted /\ vs_pc = "idle"

\* isp_thread_entry: tx_semaphore_get(&isp_ctx.vsync_sem, TX_WAIT_FOREVER)
IspThread_Get ==
  /\ IspThreadRuns
  /\ isp_thread = "tx_semaphore_get"
  /\ tx_semaphore_get
  /\ UNCHANGED <<display_delay, bootVars, hwVars, camera_display_buffers,
                 ui_buffer, camera_display_idx, camera_capture_idx, cbVars,
                 apiVars, vs_pc, vs_pipe, vsyncs, isp_passes,
                 isp_pass_vsyncs, uiVars, loadVars, concVars, readerVars>>

\* isp_thread_entry: CAM_IspUpdate() is called, the tuning pass starts
IspThread_UpdateStart ==
  /\ IspThreadRuns
  /\ isp_thread = "CAM_IspUpdate"
  /\ isp_thread' = "CMW_CAMERA_Run"
  /\ isp_passes' = isp_passes + 1
  /\ isp_pass_vsyncs' = vsyncs
  /\ UNCHANGED <<display_delay, bootVars, hwVars, camera_display_buffers,
                 ui_buffer, camera_display_idx, camera_capture_idx, cbVars,
                 apiVars, vsync_sem, vs_pc, vs_pipe, vsyncs, uiVars,
                 loadVars, concVars, readerVars>>

\* CAM_IspUpdate: CMW_CAMERA_Run returns; assert(ret == CMW_ERROR_NONE)
\* stops the system when it failed, otherwise the thread loops
IspThread_UpdateEnd(run_ok) ==
  /\ IspThreadRuns
  /\ isp_thread = "CMW_CAMERA_Run"
  /\ isp_thread' = IF run_ok THEN "tx_semaphore_get" ELSE isp_thread
  /\ halted' = ~run_ok
  /\ UNCHANGED <<display_delay, entry, boot, boot_errors, hwVars,
                 camera_display_buffers,
                 ui_buffer, camera_display_idx, camera_capture_idx, cbVars,
                 apiVars, vsync_sem, vs_pc, vs_pipe, vsyncs, isp_passes,
                 isp_pass_vsyncs, uiVars, loadVars, concVars, readerVars>>

\* ------------------------------------------------------------------------
\* app_threadx.c (App_ThreadX_Init), app.c (App_Init)
\* ------------------------------------------------------------------------
EntryPoints == {"App_ThreadX_Init", "App_Init"}

\* mutant: the capture pipe is started before the semaphore is created
BootSteps_CaptureFirst ==
  <<"Buffer_Init", "LCD_Init", "CAM_DisplayPipe_Start", "CAM_InitIspSemaphore",
    "CAM_Init", "Thread_IspUpdate_Init">>

\* Calls of the startup routines that bring up the display, the camera and
\* the ISP thread, in the order both routines make them.
BootSteps == <<"Buffer_Init", "LCD_Init", "CAM_InitIspSemaphore", "CAM_Init",
               "Thread_IspUpdate_Init", "CAM_DisplayPipe_Start">>

BootIndex(step) == CHOOSE i \in 1..Len(BootSteps) : BootSteps[i] = step

\* Position after `step` returned ret: App_ThreadX_Init returns a non-zero
\* status to its caller at once, App_Init does not look at it.
BootAfter(step, ret) ==
  IF entry = "App_ThreadX_Init" /\ ret # 0 THEN "returned_error"
  ELSE IF BootIndex(step) = Len(BootSteps) THEN "running"
  ELSE BootSteps[BootIndex(step) + 1]

\* The failure statuses the startup routine has been handed so far.
BootErrorsAfter(step, ret) ==
  IF ret # 0 THEN boot_errors \cup {step} ELSE boot_errors

Boot_Buffer_Init ==
  /\ boot = "Buffer_Init"
  /\ Buffer_Init
  /\ boot' = BootAfter("Buffer_Init", 0)
  /\ UNCHANGED <<display_delay, entry, halted, boot_errors, hwVars, cbVars,
                 apiVars, ispVars, uiVars,
                 loadVars, concVars, readerVars>>

Boot_LCD_Init(bsp_init, cfg0, cfg1) ==
  /\ boot = "LCD_Init"
  /\ LCD_Init(bsp_init, cfg0, cfg1)
  /\ boot' = BootAfter("LCD_Init", LCD_InitRet(bsp_init, cfg0, cfg1))
  /\ boot_errors' =
       BootErrorsAfter("LCD_Init", LCD_InitRet(bsp_init, cfg0, cfg1))
  /\ UNCHANGED <<display_delay, entry, halted, dcmipp_pipe1_addr, capture_on,
                 camera_display_buffers, ui_buffer, camera_display_idx,
                 camera_capture_idx, cbVars, apiVars, ispVars, uiVars,
                 loadVars, concVars, readerVars>>

\* tx_semaphore_create on the static control block, called once from the
\* startup routine, returns TX_SUCCESS
Boot_CAM_InitIspSemaphore ==
  /\ boot = "CAM_InitIspSemaphore"
  /\ CAM_InitIspSemaphore
  /\ boot' = BootAfter("CAM_InitIspSemaphore", 0)
  /\ UNCHANGED <<display_delay, entry, halted, boot_errors, hwVars,
                 camera_display_buffers,
                 ui_buffer, camera_display_idx, camera_capture_idx, cbVars,
                 apiVars, isp_thread, vs_pc, vs_pipe, vsyncs, isp_passes,
                 isp_pass_vsyncs, uiVars, loadVars, concVars, readerVars>>

Boot_CAM_Init(cmw_ok, pipe1_ok, pipe2_ok) ==
  /\ boot = "CAM_Init"
  /\ boot' = BootAfter("CAM_Init", CAM_InitRet(cmw_ok, pipe1_ok, pipe2_ok))
  /\ boot_errors' =
       BootErrorsAfter("CAM_Init", CAM_InitRet(cmw_ok, pipe1_ok, pipe2_ok))
  /\ UNCHANGED <<display_delay, entry, halted, hwVars, camera_display_buffers,
                 ui_buffer, camera_display_idx, camera_capture_idx, cbVars,
                 apiVars, ispVars, uiVars, loadVars, concVars, readerVars>>

\* tx_thread_create with the static stack, size and priority of app_cam.c
\* returns TX_SUCCESS
Boot_Thread_IspUpdate_Init ==
  /\ boot = "Thread_IspUpdate_Init"
  /\ Thread_IspUpdate_Init
  /\ boot' = BootAfter("Thread_IspUpdate_Init", 0)
  /\ UNCHANGED <<display_delay, entry, halted, boot_errors, hwVars,
                 camera_display_buffers,
                 ui_buffer, camera_display_idx, camera_capture_idx, cbVars,
                 apiVars, vsync_sem, vs_pc, vs_pipe, vsyncs, isp_passes,
                 isp_pass_vsyncs, uiVars, loadVars, concVars, readerVars>>

Boot_CAM_DisplayPipe_Start(start_ok) ==
  /\ boot = "CAM_DisplayPipe_Start"
  /\ CAM_DisplayPipe_Start(start_ok)
  /\ boot' = IF halted' THEN "halted"
             ELSE BootAfter("CAM_DisplayPipe_Start", 0)
  /\ UNCHANGED <<display_delay, entry, boot_errors, lcd_initialized,
                 ltdc_layer0_addr,
                 camera_display_buffers, ui_buffer, camera_display_idx,
                 camera_capture_idx, cbVars, apiVars, ispVars, uiVars,
                 loadVars, concVars, readerVars>>

\* ------------------------------------------------------------------------
\* CPU load sampler: app_ui.h, app_ui.c
\* ------------------------------------------------------------------------
nonLoadVars == <<display_delay, bootVars, hwVars, camera_display_buffers,
                 ui_buffer, camera_display_idx, camera_capture_idx, cbVars,
                 apiVars, ispVars, uiVars, concVars, readerVars>>

CPU_LOAD_HISTORY_DEPTH == 8

HistorySlots == 0 .. (CPU_LOAD_HISTORY_DEPTH - 1)

\* A uint32_t is kept as the 32-bit int with the same bits: 2^32 - 1 is -1,
\* 2^31 is INT_MIN. ToUnsigned gives its value as <<bit 31, bits 30..0>>.

\* a < b on uint32_t
Less32(a, b) ==
  LET ua == ToUnsigned(a)
      ub == ToUnsigned(b)
  IN  ua[1] < ub[1] \/ (ua[1] = ub[1] /\ ua[2] < ub[2])

\* a + b on uint32_t: the sum modulo 2^32
Add32(a, b) ==
  IF a >= 0 /\ b >= 0
    THEN IF a > INT_MAX - b THEN (a + INT_MIN) + (b + INT_MIN) ELSE a + b
  ELSE IF a < 0 /\ b < 0
    THEN IF a < INT_MIN - b THEN (a - INT_MIN) + (b - INT_MIN) ELSE a + b
  ELSE a + b

\* mutant: the subtraction saturates at zero instead of wrapping
Sub32_Saturating(a, b) ==
  IF Less32(a, b) THEN 0
  ELSE IF a < 0 /\ b >= 0
    THEN IF a < INT_MIN + b
           THEN ((a - INT_MIN) + (INT_MAX - b)) + 1
           ELSE a - b
  ELSE a - b

\* a - b on uint32_t: the difference modulo 2^32
Sub32(a, b) ==
  IF a >= 0 /\ b < 0
    THEN LET nb == -(b + 1)
         IN  IF a > (INT_MAX - 1) - nb
               THEN (a + INT_MIN) + (nb - INT_MAX)
               ELSE a + nb + 1
  ELSE IF a < 0 /\ b >= 0
    THEN IF a < INT_MIN + b
           THEN ((a - INT_MIN) + (INT_MAX - b)) + 1
           ELSE a - b
  ELSE a - b

\* ------------------------------------------------------------------------
\* float: IEEE 754 binary32, round to nearest even. A finite value is
\* (-1)^s * m * 2^e with m = 0 or 2^23 <= m < 2^24; FNotFinite stands for
\* the infinities and NaN.
\* ------------------------------------------------------------------------
F23 == 8388608
F24 == 16777216

FZero == [s |-> 0, m |-> 0, e |-> 0]
FOne == [s |-> 0, m |-> F23, e |-> -23]
FNotFinite == [s |-> 0, m |-> 0, e |-> 255]

RECURSIVE BitLength(_)
BitLength(v) == IF v = 0 THEN 0 ELSE 1 + BitLength(v \div 2)

\* an exact value m * 2^e, 0 < m < 2^24, with the mantissa normalised
RECURSIVE FNormUp(_, _, _)
FNormUp(s, m, e) ==
  IF m >= F23 THEN [s |-> s, m |-> m, e |-> e] ELSE FNormUp(s, 2 * m, e - 1)

\* q + (r2 / 2) / d rounded to the nearest integer, ties to the even one
RoundNearestEven(q, r2, d) ==
  IF r2 > d \/ (r2 = d /\ q % 2 = 1) THEN q + 1 ELSE q

\* a rounded mantissa may have reached 2^24
FPack(s, m, e) ==
  IF m = F24 THEN [s |-> s, m |-> F23, e |-> e + 1]
  ELSE [s |-> s, m |-> m, e |-> e]

\* (float)x for a uint32_t x
U32ToFloat(x) ==
  LET u == ToUnsigned(x)
      low == u[2]
  IN  IF u[1] = 1
        THEN FPack(0, RoundNearestEven(F23 + (low \div 256),
                                       2 * (low % 256), 256), 8)
      ELSE IF low = 0 THEN FZero
      ELSE IF low < F24 THEN FNormUp(0, low, 0)
      ELSE LET k == BitLength(low) - 24
               p == 2 ^ k
           IN  FPack(0, RoundNearestEven(low \div p, 2 * (low % p), p), k)

\* k more bits of the quotient r / d, by long division
RECURSIVE DivBits(_, _, _, _)
DivBits(q, r, d, k) ==
  IF k = 0 THEN <<q, r>>
  ELSE IF 2 * r >= d THEN DivBits(2 * q + 1, 2 * r - d, d, k - 1)
  ELSE DivBits(2 * q, 2 * r, d, k - 1)

\* a / b for a >= 0, b >= 0
FDiv(a, b) ==
  IF b.m = 0 THEN FNotFinite
  ELSE IF a.m = 0 THEN FZero
  ELSE LET bits == IF a.m >= b.m THEN 23 ELSE 24
           qr == DivBits(a.m \div b.m, a.m % b.m, b.m, bits)
       IN  FPack(0, RoundNearestEven(qr[1], 2 * qr[2], b.m),
                 (a.e - b.e) - bits)

\* 1.0f - q for q >= 0
FOneMinus(q) ==
  IF q = FNotFinite THEN FNotFinite
  ELSE IF q.m = 0 THEN FOne
  ELSE IF q.e <= -24
    THEN \* q < 1
         LET sh == (-q.e) - 24
         IN  IF sh = 0 THEN FNormUp(0, F24 - q.m, -24)
             ELSE IF sh >= 25 THEN FOne
             ELSE LET p == 2 ^ sh
                      qi == q.m \div p
                      r == q.m % p
                  IN  IF r = 0 THEN FPack(0, F24 - qi, -24)
                      ELSE FPack(0, RoundNearestEven((F24 - qi) - 1,
                                                     2 * (p - r), p), -24)
  ELSE IF q.e = -23 /\ q.m = F23 THEN FZero
  ELSE \* q > 1: the result is -(q - 1)
       IF q.e <= 0 THEN FNormUp(1, q.m - 2 ^ (-q.e), q.e)
       ELSE IF q.e = 1
         THEN IF q.m = F23 THEN [s |-> 1, m |-> F24 - 1, e |-> 0]
              ELSE FPack(1, RoundNearestEven(q.m - 1, 1, 1), 1)
       ELSE [q EXCEPT !.s = 1]

\* 100.0f * x
FMul100(x) ==
  IF x = FNotFinite THEN FNotFinite
  ELSE IF x.m = 0 THEN FZero
  ELSE LET p == x.m * 25
           k == IF p < 2 ^ 28 THEN 4 ELSE 5
           d == 2 ^ k
       IN  FPack(x.s, RoundNearestEven(p \div d, 2 * (p % d), d),
                 (x.e + 2) + k)

\* ------------------------------------------------------------------------
\* idle hooks and sampler of app_ui.c
\* ------------------------------------------------------------------------
GET_CYCLE_COUNT == DWT_CYCCNT

\* HAL_GetTick returns tx_time_get() scaled to milliseconds; uwTick is the
\* value it returns, and the clock moves it by multiples of 10 ms, which
\* a tick rate of 100 and one of 1000 per second both produce.
HAL_GetTick == uwTick

\* One entry of history[]. cw and iw are not fields of the structure: they
\* record how often each counter had passed 2^32 when the entry was taken.
HistoryEntry(total, idle, tick, cw, iw) ==
  [total |-> total, idle |-> idle, tick |-> tick, cw |-> cw, iw |-> iw]

HistoryZero == HistoryEntry(0, 0, 0, 0, 0)

\* mutant: the entry time is taken on every call
UI_IdleThread_Enter_Unguarded ==
  /\ g_idle_enter_cycle' = GET_CYCLE_COUNT
  /\ g_in_idle' = 1

UI_IdleThread_Enter ==
  IF g_in_idle = 0
    THEN /\ g_idle_enter_cycle' = GET_CYCLE_COUNT
         /\ g_in_idle' = 1
    ELSE UNCHANGED <<g_idle_enter_cycle, g_in_idle>>

\* UI_IdleThread_Exit from `g_idle_cycles_total += elapsed` on; the local
\* exit_cycle is dead when the function returns
UI_IdleThread_Exit_Accumulate ==
  LET elapsed == Sub32(exit_cycle, g_idle_enter_cycle)
      total == Add32(g_idle_cycles_total, elapsed)
  IN  /\ g_idle_cycles_total' = total
      /\ idle_wraps' = IF Less32(total, g_idle_cycles_total)
                         THEN idle_wraps + 1 ELSE idle_wraps
      /\ g_in_idle' = 0
      /\ exit_cycle' = 0

\* DWT->CYCCNT = 0 with the counter enabled
UI_InitCycleCounter ==
  /\ DWT_CYCCNT' = 0
  /\ cyc_wraps' = 0

\* memset(cpu_load, 0, sizeof(cpuload_info_t)) and the two statics
UI_CPULoad_Init ==
  /\ g_cpu_load' = [i \in HistorySlots |-> HistoryZero]
  /\ g_idle_cycles_total' = 0
  /\ idle_wraps' = 0
  /\ g_last_history_update_tick' = 0
  /\ ms_since_update' = uwTick
  /\ decimations' = 0

\* mutant: slot 0 is overwritten before it is copied
ShiftInstant_StoreFirst(h, current) ==
  [h EXCEPT ![0] = current, ![1] = current]

\* history[1] = history[0]; history[0] = current
ShiftInstant(h, current) == [h EXCEPT ![1] = h[0], ![0] = current]

\* mutant: the period has to be exceeded
DecimationDue_Strict(current_tick) ==
  UnsignedGE(ToUnsigned(Sub32(current_tick, g_last_history_update_tick)),
             1001)

\* current_tick - g_last_history_update_tick >= 1000
DecimationDue(current_tick) ==
  UnsignedGE(ToUnsigned(Sub32(current_tick, g_last_history_update_tick)),
             1000)

\* mutant: the newest sample is promoted
Decimate_PromotesSlot0(h) ==
  [i \in HistorySlots |->
     IF i >= 3 THEN h[i - 1] ELSE IF i = 2 THEN h[0] ELSE h[i]]

\* memmove(&history[3], &history[2], (CPU_LOAD_HISTORY_DEPTH - 3) entries);
\* history[2] = history[1]
Decimate(h) ==
  [i \in HistorySlots |->
     IF i >= 3 /\ i < 3 + (CPU_LOAD_HISTORY_DEPTH - 3) THEN h[i - 1]
     ELSE IF i = 2 THEN h[1]
     ELSE h[i]]

UI_CPULoad_Update ==
  LET current_tick == HAL_GetTick
      current_total == GET_CYCLE_COUNT
      current_idle == g_idle_cycles_total
      current == HistoryEntry(current_total, current_idle, current_tick,
                              cyc_wraps, idle_wraps)
      shifted == ShiftInstant(g_cpu_load, current)
  IN  IF DecimationDue(current_tick)
        THEN /\ g_last_history_update_tick' = current_tick
             /\ ms_since_update' = 0
             /\ decimations' = decimations + 1
             /\ g_cpu_load' = Decimate(shifted)
        ELSE /\ g_cpu_load' = shifted
             /\ UNCHANGED <<g_last_history_update_tick, ms_since_update,
                            decimations>>

\* mutant: the idle share is returned instead of the busy share
LoadPct_IdleShare(idle_delta, total_delta) ==
  FMul100(FDiv(U32ToFloat(idle_delta), U32ToFloat(total_delta)))

\* 100.0f * (1.0f - (float)idle_delta / (float)total_delta)
LoadPct(idle_delta, total_delta) ==
  FMul100(FOneMinus(FDiv(U32ToFloat(idle_delta), U32ToFloat(total_delta))))

\* A computed load: the float returned, and whether the division was
\* executed on the way.
LoadResult(pct, div) == [pct |-> pct, div |-> div]

\* mutant: the test for a zero difference is left out
UI_CPULoad_GetInstant_NoZeroTest(h) ==
  LoadResult(LoadPct(Sub32(h[0].idle, h[1].idle),
                     Sub32(h[0].total, h[1].total)), TRUE)

UI_CPULoad_GetInstant(h) ==
  LET total_delta == Sub32(h[0].total, h[1].total)
  IN  IF total_delta = 0 THEN LoadResult(FZero, FALSE)
      ELSE LET idle_delta == Sub32(h[0].idle, h[1].idle)
           IN  LoadResult(LoadPct(idle_delta, total_delta), TRUE)

\* the one-second and five-second blocks of UI_CPULoad_GetInfo, on the
\* entries `newer` and `older`
WindowLoad(h, newer, older) ==
  LET total_delta == Sub32(h[newer].total, h[older].total)
  IN  IF UnsignedGE(ToUnsigned(total_delta), 1)
        THEN LET idle_delta == Sub32(h[newer].idle, h[older].idle)
             IN  LoadResult(LoadPct(idle_delta, total_delta), TRUE)
        ELSE LoadResult(FZero, FALSE)

\* UI_CPULoad_GetInfo with three non-NULL output pointers
UI_CPULoad_GetInfo(h) ==
  [cpu_load_last |-> UI_CPULoad_GetInstant(h),
   cpu_load_last_second |-> WindowLoad(h, 2, 3),
   cpu_load_last_five_seconds |-> WindowLoad(h, 2, 7)]

\* ------------------------------------------------------------------------
\* the clocks, the idle thread (app.c) and the callers of the sampler
\* ------------------------------------------------------------------------
\* cycles and milliseconds by which the clocks move between two steps of
\* the program
\* The largest advance, 2^24 + 1 cycles, is not a float.
ClockSteps == {<<1, 10>>, <<2, 990>>, <<16777217, 1000>>}

IdleHookCallers == {"idle_measure_thread_entry", "any"}

\* The call that follows a call of `hook`. idle_measure_thread_entry calls
\* the two hooks in turn around tx_thread_relinquish, which hands the
\* processor to whatever else is ready; another caller of the public hooks
\* may call them in any order.
IdleNext(hook) ==
  IF hook_caller = "idle_measure_thread_entry"
    THEN IF hook = "UI_IdleThread_Enter" THEN {"UI_IdleThread_Exit"}
         ELSE {"UI_IdleThread_Enter"}
    ELSE {"UI_IdleThread_Enter", "UI_IdleThread_Exit"}

\* The hooks are called once UI_Init has run: App_Init creates the idle
\* thread after it.
Clock_Advance(cycles, ms) ==
  /\ g_ui_initialized # 0
  /\ clock_steps < MaxClockSteps
  /\ clock_steps' = clock_steps + 1
  /\ DWT_CYCCNT' = Add32(DWT_CYCCNT, cycles)
  /\ cyc_wraps' = IF Less32(Add32(DWT_CYCCNT, cycles), DWT_CYCCNT)
                    THEN cyc_wraps + 1 ELSE cyc_wraps
  /\ uwTick' = Add32(uwTick, ms)
  /\ ms_since_update' = ms_since_update + ms
  /\ UNCHANGED <<g_cpu_load, g_idle_cycles_total, g_idle_enter_cycle,
                 g_in_idle, g_last_history_update_tick, idle_pc, exit_cycle,
                 hook_caller, hook_noop, load_info, samples, idle_wraps,
                 decimations, idle_held_cycles, nonLoadVars>>

Idle_Enter ==
  /\ g_ui_initialized # 0
  /\ idle_pc = "UI_IdleThread_Enter"
  /\ UI_IdleThread_Enter
  /\ hook_noop' = IF g_in_idle # 0 THEN "UI_IdleThread_Enter" ELSE "none"
  /\ idle_pc' \in IdleNext("UI_IdleThread_Enter")
  /\ UNCHANGED <<DWT_CYCCNT, uwTick, g_cpu_load, g_idle_cycles_total,
                 g_last_history_update_tick, exit_cycle, hook_caller,
                 load_info, samples, clock_steps, cyc_wraps,
                 idle_wraps, ms_since_update, decimations, idle_held_cycles,
                 nonLoadVars>>

\* UI_IdleThread_Exit up to the read of the cycle counter
Idle_Exit_Entry ==
  /\ g_ui_initialized # 0
  /\ idle_pc = "UI_IdleThread_Exit"
  /\ IF g_in_idle # 0
       THEN /\ exit_cycle' = GET_CYCLE_COUNT
            /\ idle_pc' = "g_idle_cycles_total +="
            /\ hook_noop' = "none"
       ELSE /\ idle_pc' \in IdleNext("UI_IdleThread_Exit")
            /\ hook_noop' = "UI_IdleThread_Exit"
            /\ UNCHANGED exit_cycle
  /\ UNCHANGED <<DWT_CYCCNT, uwTick, g_cpu_load, g_idle_cycles_total,
                 g_idle_enter_cycle, g_in_idle, g_last_history_update_tick,
                 hook_caller, load_info, samples, clock_steps,
                 cyc_wraps, idle_wraps, ms_since_update, decimations,
                 idle_held_cycles, nonLoadVars>>

Idle_Exit_Accumulate ==
  /\ idle_pc = "g_idle_cycles_total +="
  /\ UI_IdleThread_Exit_Accumulate
  /\ hook_noop' = "none"
  /\ idle_pc' \in IdleNext("UI_IdleThread_Exit")
  /\ UNCHANGED <<DWT_CYCCNT, uwTick, g_cpu_load, g_idle_enter_cycle,
                 g_last_history_update_tick, hook_caller, load_info, samples,
                 clock_steps, cyc_wraps, ms_since_update, decimations,
                 idle_held_cycles, nonLoadVars>>

\* A sampler tick: UI_CPULoad_Update(&g_cpu_load) followed, as in
\* UI_Update, by the read of the loads, here through UI_CPULoad_GetInfo.
\* The caller has a higher priority than the idle thread and runs from
\* start to end.
CPULoad_Sample ==
  /\ g_ui_initialized # 0
  /\ samples < MaxSamples
  /\ samples' = samples + 1
  /\ UI_CPULoad_Update
  /\ load_info' = UI_CPULoad_GetInfo(g_cpu_load')
  /\ UNCHANGED <<DWT_CYCCNT, uwTick, g_idle_cycles_total, g_idle_enter_cycle,
                 g_in_idle, idle_pc, exit_cycle, hook_caller, hook_noop,
                 clock_steps, cyc_wraps, idle_wraps, idle_held_cycles,
                 nonLoadVars>>

\* cycles a thread runs for before it is preempted or yields
RunCycles == {1, 2}

\* The idle-measure thread holds the processor for `cycles` cycles, at
\* whatever statement of its loop it is.
Idle_Run(cycles) ==
  /\ g_ui_initialized # 0
  /\ clock_steps < MaxClockSteps
  /\ clock_steps' = clock_steps + 1
  /\ DWT_CYCCNT' = Add32(DWT_CYCCNT, cycles)
  /\ cyc_wraps' = IF Less32(Add32(DWT_CYCCNT, cycles), DWT_CYCCNT)
                    THEN cyc_wraps + 1 ELSE cyc_wraps
  /\ idle_held_cycles' = idle_held_cycles + cycles
  /\ UNCHANGED <<uwTick, g_cpu_load, g_idle_cycles_total, g_idle_enter_cycle,
                 g_in_idle, g_last_history_update_tick, idle_pc, exit_cycle,
                 hook_caller, hook_noop, load_info, samples, idle_wraps,
                 ms_since_update, decimations, nonLoadVars>>

\* A thread of higher priority (the idle-measure thread has the lowest,
\* app.c) or an interrupt handler takes the processor from the
\* idle-measure thread for `cycles` cycles, between any two of its
\* statements, tx_thread_relinquish included.
Preempt_Run(cycles) ==
  /\ g_ui_initialized # 0
  /\ clock_steps < MaxClockSteps
  /\ clock_steps' = clock_steps + 1
  /\ DWT_CYCCNT' = Add32(DWT_CYCCNT, cycles)
  /\ cyc_wraps' = IF Less32(Add32(DWT_CYCCNT, cycles), DWT_CYCCNT)
                    THEN cyc_wraps + 1 ELSE cyc_wraps
  /\ UNCHANGED <<uwTick, g_cpu_load, g_idle_cycles_total, g_idle_enter_cycle,
                 g_in_idle, g_last_history_update_tick, idle_pc, exit_cycle,
                 hook_caller, hook_noop, load_info, samples, idle_wraps,
                 ms_since_update, decimations, idle_held_cycles,
                 nonLoadVars>>

\* Zero-initialised statics of app_ui.c; the cycle counter is not running
\* and no millisecond has passed. load_info starts as the outputs
\* computed on the zeroed history.
LoadStaticsAtReset ==
  /\ DWT_CYCCNT = 0
  /\ uwTick = 0
  /\ g_cpu_load = [i \in HistorySlots |-> HistoryZero]
  /\ g_idle_cycles_total = 0
  /\ g_idle_enter_cycle = 0
  /\ g_in_idle = 0
  /\ g_last_history_update_tick = 0
  /\ idle_pc = "UI_IdleThread_Enter"
  /\ exit_cycle = 0
  /\ hook_noop = "none"
  /\ load_info = UI_CPULoad_GetInfo(g_cpu_load)
  /\ samples = 0
  /\ clock_steps = 0
  /\ cyc_wraps = 0
  /\ idle_wraps = 0
  /\ ms_since_update = 0
  /\ decimations = 0
  /\ idle_held_cycles = 0

LoadAtReset ==
  /\ LoadStaticsAtReset
  /\ hook_caller = "idle_measure_thread_entry"

\* no thread has read the ring indices
ReaderAtReset ==
  reader = [pc |-> "idle", display |-> 0, capture |-> 0, frames |-> 0,
            between |-> 0, reads |-> 0]

\* no other thread calls into the overlay
ConcAtReset ==
  /\ sv_pc = "idle"
  /\ sv_buffer_ptr = NULL
  /\ sv_calls = 0
  /\ preempted = "none"

\* ------------------------------------------------------------------------
\* UI overlay: app_buffers.h (UI macros), LTDC layer 1, app_ui.c
\* ------------------------------------------------------------------------
nonUiVars == <<display_delay, bootVars, hwVars, camera_display_buffers,
               ui_buffer, camera_display_idx, camera_capture_idx, cbVars,
               apiVars, ispVars>>

UiSlots == 0 .. 1

\* ui_display_buffers[_idx] decayed to a pointer to that row
UiSlotPtr(i) == [region |-> "ui_display_buffers", slot |-> i]

\* Contents of a UI slot. panel: the pixels present in the panel rectangle
\* UI_Update clears and draws in, each named by the overlay frame that drew
\* it; rest: the pixels present outside the rectangle. UNINIT names whatever
\* the PSRAM held at reset. A slot with no pixel is fully transparent.
UNINIT == 0

UiSlotCleared == [panel |-> {}, rest |-> {}]

UiSlotAtReset == [panel |-> {UNINIT}, rest |-> {UNINIT}]

\* _idx ^ 1 on a two's complement int: the lowest bit is flipped
Xor1(i) == IF i % 2 = 0 THEN i + 1 ELSE i - 1

Buffer_GetNextUIDisplayIndex == Xor1(ui_display_idx)

Buffer_GetUIFrontBuffer == UiSlotPtr(ui_display_idx)

\* mutant: the back buffer is taken to be the front one
Buffer_GetUIBackBuffer_Front == UiSlotPtr(ui_display_idx)

Buffer_GetUIBackBuffer == UiSlotPtr(Xor1(ui_display_idx))

Buffer_SetUIDisplayIndex(idx) ==
  ui_display_idx' =
    IF UnsignedGE(ToUnsigned(idx), Cardinality(UiSlots)) THEN ui_display_idx
    ELSE idx

\* return value of Buffer_SetUIDisplayIndex
Buffer_SetUIDisplayIndexRet(idx) ==
  IF UnsignedGE(ToUnsigned(idx), Cardinality(UiSlots)) THEN -1 ELSE 0

\* LTDC layer 1. The address register of the layer takes the address it is
\* handed; a reload request makes the layer scan from the address it names
\* from the next vertical blanking on.
LCD_SetUILayerAddress(buf) ==
  /\ ltdc_layer1_addr' = buf
  /\ UNCHANGED ltdc_layer1_reload

LCD_ReloadUILayer(buf) ==
  /\ ltdc_layer1_addr' = buf
  /\ ltdc_layer1_reload' = buf

\* UTIL_LCD_* draw into the frame buffer of the active layer (layer 1,
\* chosen by UTIL_LCD_SetLayer), at the address the layer holds.
UTIL_LCD_Target == ltdc_layer1_addr.slot

\* mutant: the overlay is redrawn whether or not UI_Init has run
UI_UpdateEnabled_IgnoresInit == g_ui_visible # 0

\* mutant: the overlay is redrawn whether or not it is visible
UI_UpdateEnabled_IgnoresVisible == g_ui_initialized # 0

\* UI_Update returns at once unless initialised and visible
UI_UpdateEnabled == g_ui_initialized # 0 /\ g_ui_visible # 0

\* mutant: only the panel rectangle is cleared
Memset0_PanelOnly(content) == [content EXCEPT !.panel = {}]

\* memset(ui_buffer, 0, LCD_WIDTH * LCD_HEIGHT * 4): the whole slot
Memset0(content) == UiSlotCleared

\* Statement order of UI_Update and of the hide branch of UI_SetVisible.
UiStepAfter(op, step) ==
  CASE step = "LCD_SetUILayerAddress" ->
         IF op = "UI_Update" THEN "UTIL_LCD_FillRect" ELSE "memset"
    [] step = "UTIL_LCD_FillRect" -> "UTIL_LCD_draw"
    [] step = "UTIL_LCD_draw" -> "Buffer_SetUIDisplayIndex"
    [] step = "memset" -> "Buffer_SetUIDisplayIndex"
    [] step = "Buffer_SetUIDisplayIndex" -> "LCD_ReloadUILayer"
    [] step = "LCD_ReloadUILayer" -> "idle"

\* The UI thread executes unless a call it is in the middle of has been
\* preempted by another thread's call, which then runs to its end first.
UiThreadRuns == preempted = "none"

\* a UI call begins
UiBegin(op) ==
  /\ ui_prev_op' = ui_op
  /\ ui_op' = op
  /\ ui_front0' = ui_display_idx
  /\ ui_log' = <<>>

\* leave statement `step` of the call in progress
UiAdvance(step) ==
  /\ ui_pc' = UiStepAfter(ui_op, step)
  /\ ui_log' = Append(ui_log, step)
  /\ UNCHANGED <<ui_op, ui_prev_op, ui_front0>>

UI_Init ==
  /\ ui_pc = "idle"
  /\ UiThreadRuns
  /\ UiBegin("UI_Init")
  /\ IF g_ui_initialized # 0
       THEN UNCHANGED <<g_ui_initialized, DWT_CYCCNT, cyc_wraps, g_cpu_load,
                        g_idle_cycles_total, idle_wraps,
                        g_last_history_update_tick, ms_since_update,
                        decimations>>
       ELSE /\ UI_InitCycleCounter
            /\ UI_CPULoad_Init
            /\ g_ui_initialized' = 1
  /\ UNCHANGED <<g_ui_visible, ui_display_idx, ui_display_buffers,
                 ltdc_layer1_addr, ltdc_layer1_reload, ui_pc, ui_buffer_ptr,
                 ui_frame, ui_hide_mark, nonUiVars, uwTick,
                 g_idle_enter_cycle, g_in_idle, idle_pc, exit_cycle,
                 hook_caller, hook_noop, load_info, samples, clock_steps,
                 idle_held_cycles, concVars, readerVars>>

\* UI_Update up to the back-buffer lookup
UI_Update_Entry ==
  /\ ui_pc = "idle"
  /\ UiThreadRuns
  /\ ui_frame < MaxUiFrames
  /\ UiBegin("UI_Update")
  /\ IF ~UI_UpdateEnabled
       THEN UNCHANGED <<ui_pc, ui_buffer_ptr, g_cpu_load,
                        g_last_history_update_tick, ms_since_update,
                        decimations, samples, load_info>>
       ELSE /\ UI_CPULoad_Update
            /\ samples' = samples + 1
            /\ load_info' = [load_info EXCEPT
                 !.cpu_load_last = UI_CPULoad_GetInstant(g_cpu_load')]
            /\ IF Buffer_GetUIBackBuffer = NULL
                 THEN UNCHANGED <<ui_pc, ui_buffer_ptr>>
                 ELSE /\ ui_buffer_ptr' = Buffer_GetUIBackBuffer
                      /\ ui_pc' = "LCD_SetUILayerAddress"
  /\ UNCHANGED <<g_ui_visible, g_ui_initialized, ui_display_idx,
                 ui_display_buffers, ltdc_layer1_addr, ltdc_layer1_reload,
                 ui_frame, ui_hide_mark, nonUiVars, DWT_CYCCNT, uwTick,
                 g_idle_cycles_total, g_idle_enter_cycle, g_in_idle,
                 idle_pc, exit_cycle, hook_caller, hook_noop, clock_steps,
                 cyc_wraps, idle_wraps, idle_held_cycles, concVars,
                 readerVars>>

\* UI_SetVisible up to the back-buffer lookup
UI_SetVisible_Entry(visible) ==
  /\ ui_pc = "idle"
  /\ UiThreadRuns
  /\ g_ui_visible' = visible
  /\ UiBegin(IF visible = 0 THEN "UI_SetVisible_hide" ELSE "UI_SetVisible_show")
  /\ IF visible = 0 /\ Buffer_GetUIBackBuffer # NULL
       THEN /\ ui_buffer_ptr' = Buffer_GetUIBackBuffer
            /\ ui_pc' = "LCD_SetUILayerAddress"
            /\ ui_hide_mark' = ui_frame
       ELSE UNCHANGED <<ui_pc, ui_buffer_ptr, ui_hide_mark>>
  /\ UNCHANGED <<g_ui_initialized, ui_display_idx, ui_display_buffers,
                 ltdc_layer1_addr, ltdc_layer1_reload, ui_frame, nonUiVars,
                 loadVars, concVars, readerVars>>

\* LCD_SetUILayerAddress(ui_buffer), in UI_Update and in UI_SetVisible
UI_SetLayerAddress ==
  /\ ui_pc = "LCD_SetUILayerAddress"
  /\ UiThreadRuns
  /\ LCD_SetUILayerAddress(ui_buffer_ptr)
  /\ UiAdvance("LCD_SetUILayerAddress")
  /\ UNCHANGED <<g_ui_visible, g_ui_initialized, ui_display_idx,
                 ui_display_buffers, ui_buffer_ptr, ui_frame, ui_hide_mark,
                 nonUiVars, loadVars, concVars, readerVars>>

\* UTIL_LCD_FillRect(panel, 0x00000000): the panel rectangle is cleared
UI_Update_FillRect ==
  /\ ui_pc = "UTIL_LCD_FillRect"
  /\ UiThreadRuns
  /\ ui_display_buffers' =
       [ui_display_buffers EXCEPT ![UTIL_LCD_Target].panel = {}]
  /\ UiAdvance("UTIL_LCD_FillRect")
  /\ UNCHANGED <<g_ui_visible, g_ui_initialized, ui_display_idx,
                 ltdc_layer1_addr, ltdc_layer1_reload, ui_buffer_ptr,
                 ui_frame, ui_hide_mark, nonUiVars, loadVars, concVars, readerVars>>

\* title, separator, labels, values and bar, all inside the panel
\* rectangle; text is drawn on a transparent background
UI_Update_Draw ==
  /\ ui_pc = "UTIL_LCD_draw"
  /\ UiThreadRuns
  /\ ui_frame' = ui_frame + 1
  /\ ui_display_buffers' =
       [ui_display_buffers EXCEPT
          ![UTIL_LCD_Target].panel = @ \cup {ui_frame + 1}]
  /\ UiAdvance("UTIL_LCD_draw")
  /\ UNCHANGED <<g_ui_visible, g_ui_initialized, ui_display_idx,
                 ltdc_layer1_addr, ltdc_layer1_reload, ui_buffer_ptr,
                 ui_hide_mark, nonUiVars, loadVars, concVars, readerVars>>

UI_SetVisible_Memset ==
  /\ ui_pc = "memset"
  /\ UiThreadRuns
  /\ ui_display_buffers' =
       [ui_display_buffers EXCEPT ![ui_buffer_ptr.slot] = Memset0(@)]
  /\ UiAdvance("memset")
  /\ UNCHANGED <<g_ui_visible, g_ui_initialized, ui_display_idx,
                 ltdc_layer1_addr, ltdc_layer1_reload, ui_buffer_ptr,
                 ui_frame, ui_hide_mark, nonUiVars, loadVars, concVars, readerVars>>

\* Buffer_SetUIDisplayIndex(Buffer_GetNextUIDisplayIndex())
UI_SetDisplayIndex ==
  /\ ui_pc = "Buffer_SetUIDisplayIndex"
  /\ UiThreadRuns
  /\ Buffer_SetUIDisplayIndex(Buffer_GetNextUIDisplayIndex)
  /\ UiAdvance("Buffer_SetUIDisplayIndex")
  /\ UNCHANGED <<g_ui_visible, g_ui_initialized, ui_display_buffers,
                 ltdc_layer1_addr, ltdc_layer1_reload, ui_buffer_ptr,
                 ui_frame, ui_hide_mark, nonUiVars, loadVars, concVars, readerVars>>

\* LCD_ReloadUILayer(ui_buffer), the last statement of both
UI_ReloadLayer ==
  /\ ui_pc = "LCD_ReloadUILayer"
  /\ UiThreadRuns
  /\ LCD_ReloadUILayer(ui_buffer_ptr)
  /\ UiAdvance("LCD_ReloadUILayer")
  /\ UNCHANGED <<g_ui_visible, g_ui_initialized, ui_display_idx,
                 ui_display_buffers, ui_buffer_ptr, ui_frame, ui_hide_mark,
                 nonUiVars, loadVars, concVars, readerVars>>

\* ------------------------------------------------------------------------
\* UI_SetVisible(0) called by a thread other than the UI thread. On the one
\* processor either call runs to its end inside the other: the one that
\* began later finishes first.
\* ------------------------------------------------------------------------
OtherThreadRuns == ui_pc = "idle" \/ preempted = "ui_thread_entry"

\* the statement after `step` in the hide branch of UI_SetVisible
OtherAdvance(step) ==
  /\ sv_pc' = UiStepAfter("UI_SetVisible_hide", step)
  /\ preempted' = IF sv_pc' = "idle" THEN "none" ELSE preempted
  /\ UNCHANGED <<sv_buffer_ptr, sv_calls>>

\* UI_SetVisible(0) up to the back-buffer lookup
Other_SetVisible_Entry ==
  /\ sv_pc = "idle"
  /\ preempted = "none"
  /\ sv_calls < MaxOtherCalls
  /\ sv_calls' = sv_calls + 1
  /\ g_ui_visible' = 0
  /\ IF Buffer_GetUIBackBuffer # NULL
       THEN /\ sv_buffer_ptr' = Buffer_GetUIBackBuffer
            /\ sv_pc' = "LCD_SetUILayerAddress"
            /\ preempted' = IF ui_pc # "idle" THEN "ui_thread_entry"
                            ELSE "none"
       ELSE UNCHANGED <<sv_pc, sv_buffer_ptr, preempted>>
  /\ UNCHANGED <<g_ui_initialized, ui_display_idx, ui_display_buffers,
                 ltdc_layer1_addr, ltdc_layer1_reload, ui_pc, ui_op,
                 ui_prev_op, ui_buffer_ptr, ui_front0, ui_log, ui_frame,
                 ui_hide_mark, nonUiVars, loadVars, readerVars>>

Other_SetLayerAddress ==
  /\ sv_pc = "LCD_SetUILayerAddress"
  /\ OtherThreadRuns
  /\ LCD_SetUILayerAddress(sv_buffer_ptr)
  /\ OtherAdvance("LCD_SetUILayerAddress")
  /\ UNCHANGED <<g_ui_visible, g_ui_initialized, ui_display_idx,
                 ui_display_buffers, ui_pc, ui_op, ui_prev_op, ui_buffer_ptr,
                 ui_front0, ui_log, ui_frame, ui_hide_mark, nonUiVars,
                 loadVars, readerVars>>

Other_Memset ==
  /\ sv_pc = "memset"
  /\ OtherThreadRuns
  /\ ui_display_buffers' =
       [ui_display_buffers EXCEPT ![sv_buffer_ptr.slot] = Memset0(@)]
  /\ OtherAdvance("memset")
  /\ UNCHANGED <<g_ui_visible, g_ui_initialized, ui_display_idx,
                 ltdc_layer1_addr, ltdc_layer1_reload, ui_pc, ui_op,
                 ui_prev_op, ui_buffer_ptr, ui_front0, ui_log, ui_frame,
                 ui_hide_mark, nonUiVars, loadVars, readerVars>>

Other_SetDisplayIndex ==
  /\ sv_pc = "Buffer_SetUIDisplayIndex"
  /\ OtherThreadRuns
  /\ Buffer_SetUIDisplayIndex(Buffer_GetNextUIDisplayIndex)
  /\ OtherAdvance("Buffer_SetUIDisplayIndex")
  /\ UNCHANGED <<g_ui_visible, g_ui_initialized, ui_display_buffers,
                 ltdc_layer1_addr, ltdc_layer1_reload, ui_pc, ui_op,
                 ui_prev_op, ui_buffer_ptr, ui_front0, ui_log, ui_frame,
                 ui_hide_mark, nonUiVars, loadVars, readerVars>>

Other_ReloadLayer ==
  /\ sv_pc = "LCD_ReloadUILayer"
  /\ OtherThreadRuns
  /\ LCD_ReloadUILayer(sv_buffer_ptr)
  /\ OtherAdvance("LCD_ReloadUILayer")
  /\ UNCHANGED <<g_ui_visible, g_ui_initialized, ui_display_idx,
                 ui_display_buffers, ui_pc, ui_op, ui_prev_op, ui_buffer_ptr,
                 ui_front0, ui_log, ui_frame, ui_hide_mark, nonUiVars,
                 loadVars, readerVars>>

\* no UI call made yet
UiIdle ==
  /\ ui_pc = "idle"
  /\ ui_op = "none"
  /\ ui_prev_op = "none"
  /\ ui_buffer_ptr = NULL
  /\ ui_front0 = ui_display_idx
  /\ ui_log = <<>>
  /\ ui_frame = 0
  /\ ui_hide_mark = -1

UiAtReset ==
  /\ g_ui_visible = 1
  /\ g_ui_initialized = 0
  /\ ui_display_idx = 0
  /\ ui_display_buffers = [i \in UiSlots |-> UiSlotAtReset]
  /\ ltdc_layer1_addr = NULL
  /\ ltdc_layer1_reload = NULL
  /\ UiIdle

\* Zero-initialised statics of app_cam.c: no semaphore, no thread yet.
IspAtReset ==
  /\ vsync_sem = [created |-> FALSE, count |-> 0]
  /\ isp_thread = "not_created"
  /\ vs_pc = "idle"
  /\ vs_pipe = DCMIPP_PIPE1
  /\ vsyncs = 0
  /\ isp_passes = 0
  /\ isp_pass_vsyncs = 0

\* ------------------------------------------------------------------------
\* Spec: the system from reset
\* ------------------------------------------------------------------------
\* The capture slots live in a PSRAM section nothing initialises before
\* Buffer_Init; the indices have static initialisers.
Init ==
  /\ display_delay \in DISPLAY_DELAY .. MaxDisplayDelay
  /\ entry \in EntryPoints
  /\ boot = BootSteps[1]
  /\ halted = FALSE
  /\ boot_errors = {}
  /\ lcd_initialized = 0
  /\ ltdc_layer0_addr = NULL
  /\ dcmipp_pipe1_addr = NULL
  /\ capture_on = FALSE
  /\ camera_display_buffers \in [Slots -> Pixels]
  /\ ui_buffer \in Pixels
  /\ camera_display_idx = 1
  /\ camera_capture_idx = 0
  /\ cb_pc = "idle"
  /\ cb_pipe = DCMIPP_PIPE1
  /\ hdcmipp = FALSE
  /\ next_disp = 0
  /\ next_capt = 0
  /\ cb_redirect = "none"
  /\ cb_commit_issued = FALSE
  /\ cb_commit_ret = 0
  /\ cb_published = {}
  /\ frames = 0
  /\ api_op = "none"
  /\ api_arg = 0
  /\ api_ret = NULL
  /\ api_next = <<0, 0>>
  /\ api_start = <<1, 0>>
  /\ api_iter = 0
  /\ api_inits = 0
  /\ api_status = 0
  /\ IspAtReset
  /\ LoadAtReset
  /\ ConcAtReset
  /\ ReaderAtReset
  /\ UiAtReset

Next ==
  \/ Boot_Buffer_Init
  \/ \E bsp_init, cfg0, cfg1 \in BOOLEAN : Boot_LCD_Init(bsp_init, cfg0, cfg1)
  \/ Boot_CAM_InitIspSemaphore
  \/ \E cmw_ok, pipe1_ok, pipe2_ok \in BOOLEAN :
       Boot_CAM_Init(cmw_ok, pipe1_ok, pipe2_ok)
  \/ Boot_Thread_IspUpdate_Init
  \/ \E start_ok \in BOOLEAN : Boot_CAM_DisplayPipe_Start(start_ok)
  \/ \E pipe \in Pipes, handle \in BOOLEAN : FrameEvent_Entry(pipe, handle)
  \/ \E st \in HalStatus : FrameEvent_Redirect(st)
  \/ \E set_st, reload_st \in HalStatus : FrameEvent_Commit(set_st, reload_st)
  \/ FrameEvent_PublishDisplay
  \/ FrameEvent_PublishCapture
  \/ \E p \in Pixels \ {0} : DCMIPP_WriteFrame(p)

Spec == Init /\ [][Next]_vars

\* ------------------------------------------------------------------------
\* SpecApi: the buffer API on arbitrary ring states
\* ------------------------------------------------------------------------
\* int arguments handed to the lookup: around [0, N) and the ends of int
IdxInputs ==
  ((-MaxIdxOffset) .. (DISPLAY_BUFFER_NB + MaxIdxOffset)) \cup {INT_MIN, INT_MAX}

InitApi ==
  /\ display_delay \in DISPLAY_DELAY .. MaxDisplayDelay
  /\ entry = "App_ThreadX_Init"
  /\ boot = "running"
  /\ halted = FALSE
  /\ boot_errors = {}
  /\ lcd_initialized = 0
  /\ ltdc_layer0_addr = NULL
  /\ dcmipp_pipe1_addr = NULL
  /\ capture_on = FALSE
  /\ camera_display_buffers \in [Slots -> Pixels]
  /\ ui_buffer \in Pixels
  /\ camera_display_idx \in Slots
  /\ camera_capture_idx \in Slots
  /\ cb_pc = "idle"
  /\ cb_pipe = DCMIPP_PIPE1
  /\ hdcmipp = FALSE
  /\ next_disp = 0
  /\ next_capt = 0
  /\ cb_redirect = "none"
  /\ cb_commit_issued = FALSE
  /\ cb_commit_ret = 0
  /\ cb_published = {}
  /\ frames = 0
  /\ api_op = "none"
  /\ api_arg = 0
  /\ api_ret = NULL
  /\ api_next = <<0, 0>>
  /\ api_start = <<camera_display_idx, camera_capture_idx>>
  /\ api_iter = 0
  /\ api_inits = 0
  /\ api_status = 0
  /\ IspAtReset
  /\ LoadAtReset
  /\ ConcAtReset
  /\ ReaderAtReset
  /\ UiAtReset

\* index = next(index), for both indices, as the callback applies it
Api_Next ==
  /\ api_iter < MaxCycles * DISPLAY_BUFFER_NB
  /\ api_next' = <<Buffer_GetNextCameraDisplayIndex,
                   Buffer_GetNextCameraCaptureIndex>>
  /\ Buffer_SetCameraDisplayIndex(Buffer_GetNextCameraDisplayIndex)
  /\ Buffer_SetCameraCaptureIndex(Buffer_GetNextCameraCaptureIndex)
  /\ api_op' = "next"
  /\ api_iter' = api_iter + 1
  /\ api_arg' = 0
  /\ api_ret' = NULL
  /\ api_status' = 0
  /\ UNCHANGED <<display_delay, bootVars, hwVars, camera_display_buffers,
                 ui_buffer, cbVars, api_start, api_inits, ispVars, uiVars,
                 loadVars, concVars, readerVars>>

Api_GetCameraDisplayBuffer(idx) ==
  /\ api_op' = "get"
  /\ api_arg' = idx
  /\ api_ret' = Buffer_GetCameraDisplayBuffer(idx)
  /\ api_status' = 0
  /\ api_next' = <<0, 0>>
  /\ api_start' = <<camera_display_idx, camera_capture_idx>>
  /\ api_iter' = 0
  /\ UNCHANGED <<display_delay, bootVars, hwVars, camera_display_buffers,
                 ui_buffer, camera_display_idx, camera_capture_idx, cbVars,
                 api_inits, ispVars, uiVars, loadVars, concVars, readerVars>>

Api_Buffer_Init ==
  /\ api_inits < MaxInitCalls
  /\ Buffer_Init
  /\ api_op' = "init"
  /\ api_inits' = api_inits + 1
  /\ api_arg' = 0
  /\ api_ret' = NULL
  /\ api_status' = 0
  /\ api_next' = <<0, 0>>
  /\ api_start' = <<camera_display_idx', camera_capture_idx'>>
  /\ api_iter' = 0
  /\ UNCHANGED <<display_delay, bootVars, hwVars, cbVars, ispVars, uiVars,
                 loadVars, concVars, readerVars>>

NextApi ==
  \/ Api_Next
  \/ \E idx \in IdxInputs : Api_GetCameraDisplayBuffer(idx)
  \/ Api_Buffer_Init

SpecApi == InitApi /\ [][NextApi]_vars

\* ------------------------------------------------------------------------
\* SpecIsp: vsync callbacks and the ISP thread, from the creation of the
\* semaphore on
\* ------------------------------------------------------------------------
\* The startup routine has called Buffer_Init and LCD_Init and is about to
\* call CAM_InitIspSemaphore. App_ThreadX_Init gets here only when LCD_Init
\* succeeded, App_Init either way.
InitIsp ==
  /\ display_delay \in DISPLAY_DELAY .. MaxDisplayDelay
  /\ entry \in EntryPoints
  /\ boot = "CAM_InitIspSemaphore"
  /\ halted = FALSE
  /\ lcd_initialized \in IF entry = "App_Init" THEN {0, 1} ELSE {1}
  /\ boot_errors = IF lcd_initialized = 0 THEN {"LCD_Init"} ELSE {}
  /\ ltdc_layer0_addr =
       IF lcd_initialized = 1 THEN Buffer_GetCameraDisplayBuffer(0) ELSE NULL
  /\ dcmipp_pipe1_addr = NULL
  /\ capture_on = FALSE
  /\ camera_display_buffers = [i \in Slots |-> 0]
  /\ ui_buffer = 0
  /\ camera_display_idx = 1
  /\ camera_capture_idx = 0
  /\ cb_pc = "idle"
  /\ cb_pipe = DCMIPP_PIPE1
  /\ hdcmipp = FALSE
  /\ next_disp = 0
  /\ next_capt = 0
  /\ cb_redirect = "none"
  /\ cb_commit_issued = FALSE
  /\ cb_commit_ret = 0
  /\ cb_published = {}
  /\ frames = 0
  /\ api_op = "none"
  /\ api_arg = 0
  /\ api_ret = NULL
  /\ api_next = <<0, 0>>
  /\ api_start = <<1, 0>>
  /\ api_iter = 0
  /\ api_inits = 0
  /\ api_status = 0
  /\ IspAtReset
  /\ LoadAtReset
  /\ ConcAtReset
  /\ ReaderAtReset
  /\ UiAtReset

NextIsp ==
  \/ Boot_CAM_InitIspSemaphore
  \/ \E cmw_ok, pipe1_ok, pipe2_ok \in BOOLEAN :
       Boot_CAM_Init(cmw_ok, pipe1_ok, pipe2_ok)
  \/ Boot_Thread_IspUpdate_Init
  \/ \E start_ok \in BOOLEAN : Boot_CAM_DisplayPipe_Start(start_ok)
  \/ \E pipe \in Pipes : VsyncEvent_Entry(pipe)
  \/ VsyncEvent_Put
  \/ IspThread_Get
  \/ IspThread_UpdateStart
  \/ \E run_ok \in BOOLEAN : IspThread_UpdateEnd(run_ok)

SpecIsp == InitIsp /\ [][NextIsp]_vars

\* The interrupt handler runs to its end once entered, and the ISP thread,
\* ready with nothing of higher priority runnable for ever, is scheduled.
SpecIspFair ==
  /\ SpecIsp
  /\ WF_vars(VsyncEvent_Put)
  /\ WF_vars(IspThread_Get)
  /\ WF_vars(IspThread_UpdateStart)
  /\ WF_vars(\E run_ok \in BOOLEAN : IspThread_UpdateEnd(run_ok))

\* ------------------------------------------------------------------------
\* SpecUi: the overlay calls of app_ui.c, made one at a time by one thread
\* ------------------------------------------------------------------------
VisibleInputs == {0, 1, 255}

\* State of the rest of the system after App_Init, which starts the UI
\* thread; capture is left out.
InitUiRest ==
  /\ display_delay = DISPLAY_DELAY
  /\ entry = "App_Init"
  /\ boot = "running"
  /\ halted = FALSE
  /\ boot_errors = {}
  /\ lcd_initialized = 0
  /\ ltdc_layer0_addr = NULL
  /\ dcmipp_pipe1_addr = NULL
  /\ capture_on = FALSE
  /\ camera_display_buffers = [i \in Slots |-> 0]
  /\ ui_buffer = 0
  /\ camera_display_idx = 1
  /\ camera_capture_idx = 0
  /\ cb_pc = "idle"
  /\ cb_pipe = DCMIPP_PIPE1
  /\ hdcmipp = FALSE
  /\ next_disp = 0
  /\ next_capt = 0
  /\ cb_redirect = "none"
  /\ cb_commit_issued = FALSE
  /\ cb_commit_ret = 0
  /\ cb_published = {}
  /\ frames = 0
  /\ api_op = "none"
  /\ api_arg = 0
  /\ api_ret = NULL
  /\ api_next = <<0, 0>>
  /\ api_start = <<1, 0>>
  /\ api_iter = 0
  /\ api_inits = 0
  /\ api_status = 0
  /\ IspAtReset

\* The statics of app_ui.c have initialisers; the front index, the slot
\* contents and the address layer 1 was configured with are taken in
\* every combination.
InitUi ==
  /\ InitUiRest
  /\ LoadAtReset
  /\ ConcAtReset
  /\ ReaderAtReset
  /\ g_ui_visible = 1
  /\ g_ui_initialized = 0
  /\ ui_display_idx \in UiSlots
  /\ ui_display_buffers \in [UiSlots -> {UiSlotCleared, UiSlotAtReset}]
  /\ ltdc_layer1_addr \in {NULL} \cup {UiSlotPtr(i) : i \in UiSlots}
  /\ ltdc_layer1_reload = ltdc_layer1_addr
  /\ UiIdle

NextUi ==
  \/ UI_Init
  \/ UI_Update_Entry
  \/ \E visible \in VisibleInputs : UI_SetVisible_Entry(visible)
  \/ UI_SetLayerAddress
  \/ UI_Update_FillRect
  \/ UI_Update_Draw
  \/ UI_SetVisible_Memset
  \/ UI_SetDisplayIndex
  \/ UI_ReloadLayer

SpecUi == InitUi /\ [][NextUi]_vars

\* ------------------------------------------------------------------------
\* SpecLoad: UI_Init, then the clocks, the caller of the idle hooks and
\* the sampler
\* ------------------------------------------------------------------------
\* The sampler after eight ticks one second apart, each of which
\* decimated: 4 cycles between two ticks, 3 of them idle, the cycle
\* counter 2 short of 2^32 and the idle accumulator 10 short of it.
RunningSample(k) ==
  HistoryEntry((-2) - 4 * (8 - k), ((-2) - 4 * (8 - k)) - k, 1000 * k, 0, 0)

RunningHistory ==
  [i \in HistorySlots |-> IF i = 0 THEN RunningSample(8)
                          ELSE IF i = 1 THEN RunningSample(7)
                          ELSE RunningSample(9 - i)]

LoadRunning ==
  /\ g_ui_initialized = 1
  /\ DWT_CYCCNT = RunningSample(8).total
  /\ uwTick = RunningSample(8).tick
  /\ g_cpu_load = RunningHistory
  /\ g_idle_cycles_total = RunningSample(8).idle
  /\ g_idle_enter_cycle = RunningSample(8).total - 3
  /\ g_in_idle = 0
  /\ g_last_history_update_tick = RunningSample(8).tick
  /\ idle_pc = "UI_IdleThread_Enter"
  /\ exit_cycle = 0
  /\ hook_noop = "none"
  /\ load_info = UI_CPULoad_GetInfo(g_cpu_load)
  /\ samples = 0
  /\ clock_steps = 0
  /\ cyc_wraps = 0
  /\ idle_wraps = 0
  /\ ms_since_update = 0
  /\ decimations = CPU_LOAD_HISTORY_DEPTH
  /\ idle_held_cycles = 0

\* Either the state at reset, or the sampler already running.
InitLoad ==
  /\ InitUiRest
  /\ g_ui_visible = 1
  /\ ui_display_idx = 0
  /\ ui_display_buffers = [i \in UiSlots |-> UiSlotAtReset]
  /\ ltdc_layer1_addr = NULL
  /\ ltdc_layer1_reload = NULL
  /\ UiIdle
  /\ \/ g_ui_initialized = 0 /\ LoadStaticsAtReset
     \/ LoadRunning
  /\ hook_caller \in IdleHookCallers
  /\ ConcAtReset
  /\ ReaderAtReset

NextLoad ==
  \/ UI_Init
  \/ \E step \in ClockSteps : Clock_Advance(step[1], step[2])
  \/ Idle_Enter
  \/ Idle_Exit_Entry
  \/ Idle_Exit_Accumulate
  \/ CPULoad_Sample

SpecLoad == InitLoad /\ [][NextLoad]_vars

\* ------------------------------------------------------------------------
\* SpecOverlay: the UI thread's calls and the clocks
\* ------------------------------------------------------------------------
\* The sample ui_thread_entry takes at tick t when it has called UI_Update
\* every 10 ms since UI_Init: 4 cycles between two ticks, 3 of them idle.
PeriodicSample(t) ==
  HistoryEntry(4 * (t \div 10), 3 * (t \div 10), t, 0, 0)

\* The history after the tick at 8000 ms, which decimated as did the ticks
\* at 1000, 2000, ...: entry 1 is the tick before, entry 2 its snapshot and
\* the entries behind it the snapshots of the earlier decimations.
PeriodicHistory ==
  [i \in HistorySlots |->
     IF i = 0 THEN PeriodicSample(8000)
     ELSE IF i = 1 THEN PeriodicSample(7990)
     ELSE PeriodicSample(7990 - 1000 * (i - 2))]

LoadPeriodic ==
  /\ g_ui_initialized = 1
  /\ DWT_CYCCNT = PeriodicSample(8000).total
  /\ uwTick = PeriodicSample(8000).tick
  /\ g_cpu_load = PeriodicHistory
  /\ g_idle_cycles_total = PeriodicSample(8000).idle
  /\ g_idle_enter_cycle = 0
  /\ g_in_idle = 0
  /\ g_last_history_update_tick = PeriodicSample(8000).tick
  /\ idle_pc = "UI_IdleThread_Enter"
  /\ exit_cycle = 0
  /\ hook_noop = "none"
  /\ load_info = UI_CPULoad_GetInfo(g_cpu_load)
  /\ samples = 0
  /\ clock_steps = 0
  /\ cyc_wraps = 0
  /\ idle_wraps = 0
  /\ ms_since_update = 0
  /\ decimations = CPU_LOAD_HISTORY_DEPTH
  /\ idle_held_cycles = 0

\* Either the state at reset, or the overlay shown and redrawn every 10 ms
\* for 8 s: the front slot is on layer 1 and both slots hold a drawn panel.
InitOverlay ==
  /\ InitUiRest
  /\ ConcAtReset
  /\ ReaderAtReset
  /\ hook_caller = "idle_measure_thread_entry"
  /\ g_ui_visible = 1
  /\ ui_display_idx = 0
  /\ UiIdle
  /\ \/ /\ g_ui_initialized = 0
        /\ LoadStaticsAtReset
        /\ ui_display_buffers = [i \in UiSlots |-> UiSlotAtReset]
        /\ ltdc_layer1_addr = NULL
        /\ ltdc_layer1_reload = NULL
     \/ /\ LoadPeriodic
        /\ ui_display_buffers = [i \in UiSlots |-> [panel |-> {0}, rest |-> {}]]
        /\ ltdc_layer1_addr = Buffer_GetUIFrontBuffer
        /\ ltdc_layer1_reload = Buffer_GetUIFrontBuffer

NextOverlay ==
  \/ UI_Init
  \/ UI_Update_Entry
  \/ \E visible \in VisibleInputs : UI_SetVisible_Entry(visible)
  \/ UI_SetLayerAddress
  \/ UI_Update_FillRect
  \/ UI_Update_Draw
  \/ UI_SetVisible_Memset
  \/ UI_SetDisplayIndex
  \/ UI_ReloadLayer
  \/ \E step \in ClockSteps : Clock_Advance(step[1], step[2])

SpecOverlay == InitOverlay /\ [][NextOverlay]_vars

\* ------------------------------------------------------------------------
\* SpecIdle: the idle-measure thread and whatever preempts it, from reset
\* ------------------------------------------------------------------------
InitIdle ==
  /\ InitLoad
  /\ g_ui_initialized = 0
  /\ hook_caller = "idle_measure_thread_entry"

NextIdle ==
  \/ UI_Init
  \/ Idle_Enter
  \/ Idle_Exit_Entry
  \/ Idle_Exit_Accumulate
  \/ \E cycles \in RunCycles : Idle_Run(cycles)
  \/ \E cycles \in RunCycles : Preempt_Run(cycles)

SpecIdle == InitIdle /\ [][NextIdle]_vars

\* ------------------------------------------------------------------------
\* SpecCalls: the index setters and the LCD functions on arbitrary states
\* ------------------------------------------------------------------------
\* api_op names the function called last, api_arg its int argument,
\* api_ret the buffer handed to it and api_status the value it returned.
Call(op, arg, buf, status) ==
  /\ api_op' = op
  /\ api_arg' = arg
  /\ api_ret' = buf
  /\ api_status' = status
  /\ UNCHANGED <<api_next, api_start, api_iter, api_inits>>

Api_SetCameraDisplayIndex(idx) ==
  /\ Buffer_SetCameraDisplayIndex(idx)
  /\ Call("Buffer_SetCameraDisplayIndex", idx, NULL, Buffer_SetIndexRet(idx))
  /\ UNCHANGED <<display_delay, bootVars, hwVars, camera_display_buffers,
                 ui_buffer, camera_capture_idx, cbVars, ispVars, uiVars,
                 loadVars, concVars, readerVars>>

Api_SetCameraCaptureIndex(idx) ==
  /\ Buffer_SetCameraCaptureIndex(idx)
  /\ Call("Buffer_SetCameraCaptureIndex", idx, NULL, Buffer_SetIndexRet(idx))
  /\ UNCHANGED <<display_delay, bootVars, hwVars, camera_display_buffers,
                 ui_buffer, camera_display_idx, cbVars, ispVars, uiVars,
                 loadVars, concVars, readerVars>>

Api_SetUIDisplayIndex(idx) ==
  /\ Buffer_SetUIDisplayIndex(idx)
  /\ Call("Buffer_SetUIDisplayIndex", idx, NULL,
          Buffer_SetUIDisplayIndexRet(idx))
  /\ UNCHANGED <<display_delay, bootVars, hwVars, camera_display_buffers,
                 ui_buffer, camera_display_idx, camera_capture_idx, cbVars,
                 ispVars, g_ui_visible, g_ui_initialized, ui_display_buffers,
                 ltdc_layer1_addr, ltdc_layer1_reload, ui_pc, ui_op,
                 ui_prev_op, ui_buffer_ptr, ui_front0, ui_log, ui_frame,
                 ui_hide_mark, loadVars, concVars, readerVars>>

Api_LCD_Init(bsp_init, cfg0, cfg1) ==
  /\ LCD_Init(bsp_init, cfg0, cfg1)
  /\ Call("LCD_Init", 0, NULL, LCD_InitRet(bsp_init, cfg0, cfg1))
  /\ UNCHANGED <<display_delay, bootVars, dcmipp_pipe1_addr, capture_on,
                 camera_display_buffers, ui_buffer, camera_display_idx,
                 camera_capture_idx, cbVars, ispVars, uiVars, loadVars,
                 concVars, readerVars>>

Api_LCD_DeInit ==
  /\ LCD_DeInit
  /\ Call("LCD_DeInit", 0, NULL, 0)
  /\ UNCHANGED <<display_delay, bootVars, dcmipp_pipe1_addr, capture_on,
                 camera_display_buffers, ui_buffer, camera_display_idx,
                 camera_capture_idx, cbVars, ispVars, uiVars, loadVars,
                 concVars, readerVars>>

\* LCD_ReloadCameraLayer(Buffer_GetCameraDisplayBuffer(idx)): the buffer is
\* NULL for an idx outside the ring
Api_LCD_ReloadCameraLayer(idx, set_st, reload_st) ==
  LET frame_buffer == Buffer_GetCameraDisplayBuffer(idx)
  IN /\ LCD_ReloadCameraLayer(frame_buffer, set_st, reload_st)
     /\ Call("LCD_ReloadCameraLayer", idx, frame_buffer,
             LCD_ReloadCameraLayerRet(frame_buffer, set_st, reload_st))
     /\ UNCHANGED <<display_delay, bootVars, lcd_initialized,
                    dcmipp_pipe1_addr, capture_on, camera_display_buffers,
                    ui_buffer, camera_display_idx, camera_capture_idx,
                    cbVars, ispVars, uiVars, loadVars, concVars, readerVars>>

\* Buffer_Init has run and nothing has touched the ring since
RingInitialised ==
  /\ camera_display_buffers = [i \in Slots |-> 0]
  /\ ui_buffer = 0
  /\ camera_display_idx = 1
  /\ camera_capture_idx = 0

\* the state Buffer_Init leaves, the LCD not initialised
InitCalls ==
  /\ InitApi
  /\ RingInitialised

NextCalls ==
  \/ \E idx \in IdxInputs : Api_SetCameraDisplayIndex(idx)
  \/ \E idx \in IdxInputs : Api_SetCameraCaptureIndex(idx)
  \/ \E idx \in IdxInputs : Api_SetUIDisplayIndex(idx)
  \/ \E bsp_init, cfg0, cfg1 \in BOOLEAN : Api_LCD_Init(bsp_init, cfg0, cfg1)
  \/ Api_LCD_DeInit
  \/ \E idx \in IdxInputs, set_st, reload_st \in HalStatus :
       Api_LCD_ReloadCameraLayer(idx, set_st, reload_st)

SpecCalls == InitCalls /\ [][NextCalls]_vars

\* ------------------------------------------------------------------------
\* SpecRun: the running system, with a thread that reads the ring indices
\* ------------------------------------------------------------------------
\* A thread runs while no interrupt handler is executing.
ReaderRuns ==
  /\ boot = "running" /\ ~halted
  /\ cb_pc = "idle" /\ vs_pc = "idle"

\* int d = Buffer_GetCameraDisplayIndex(): the first of the two reads
Reader_ReadDisplay ==
  /\ ReaderRuns
  /\ reader.pc = "idle"
  /\ reader.reads < MaxReads
  /\ reader' = [reader EXCEPT !.pc = "Buffer_GetCameraCaptureIndex",
                              !.display = Buffer_GetCameraDisplayIndex,
                              !.frames = frames]
  /\ UNCHANGED <<display_delay, bootVars, hwVars, camera_display_buffers,
                 ui_buffer, camera_display_idx, camera_capture_idx, cbVars,
                 apiVars, ispVars, uiVars, loadVars, concVars>>

\* int c = Buffer_GetCameraCaptureIndex(): the second read; `between` is
\* the number of pipe-1 callbacks that ran since the first
Reader_ReadCapture ==
  /\ ReaderRuns
  /\ reader.pc = "Buffer_GetCameraCaptureIndex"
  /\ reader' = [reader EXCEPT !.pc = "idle",
                              !.capture = Buffer_GetCameraCaptureIndex,
                              !.between = frames - reader.frames,
                              !.reads = @ + 1]
  /\ UNCHANGED <<display_delay, bootVars, hwVars, camera_display_buffers,
                 ui_buffer, camera_display_idx, camera_capture_idx, cbVars,
                 apiVars, ispVars, uiVars, loadVars, concVars>>

\* The system after App_ThreadX_Init returned TX_SUCCESS: the display and
\* the camera are up, pipe 1 captures into slot 0, the ISP thread is ready.
InitRun ==
  /\ display_delay \in DISPLAY_DELAY .. MaxDisplayDelay
  /\ entry = "App_ThreadX_Init"
  /\ boot = "running"
  /\ halted = FALSE
  /\ boot_errors = {}
  /\ lcd_initialized = 1
  /\ ltdc_layer0_addr = Buffer_GetCameraDisplayBuffer(0)
  /\ dcmipp_pipe1_addr = Buffer_GetCameraDisplayBuffer(0)
  /\ capture_on = TRUE
  /\ camera_display_buffers = [i \in Slots |-> 0]
  /\ ui_buffer = 0
  /\ camera_display_idx = 1
  /\ camera_capture_idx = 0
  /\ cb_pc = "idle"
  /\ cb_pipe = DCMIPP_PIPE1
  /\ hdcmipp = FALSE
  /\ next_disp = 0
  /\ next_capt = 0
  /\ cb_redirect = "none"
  /\ cb_commit_issued = FALSE
  /\ cb_commit_ret = 0
  /\ cb_published = {}
  /\ frames = 0
  /\ api_op = "none"
  /\ api_arg = 0
  /\ api_ret = NULL
  /\ api_next = <<0, 0>>
  /\ api_start = <<1, 0>>
  /\ api_iter = 0
  /\ api_inits = 0
  /\ api_status = 0
  /\ vsync_sem = [created |-> TRUE, count |-> 0]
  /\ isp_thread = "tx_semaphore_get"
  /\ vs_pc = "idle"
  /\ vs_pipe = DCMIPP_PIPE1
  /\ vsyncs = 0
  /\ isp_passes = 0
  /\ isp_pass_vsyncs = 0
  /\ LoadAtReset
  /\ ConcAtReset
  /\ ReaderAtReset
  /\ UiAtReset

NextRun ==
  \/ \E pipe \in Pipes : vs_pc = "idle" /\ FrameEvent_Entry(pipe, TRUE)
  \/ FrameEvent_Redirect(HAL_OK)
  \/ FrameEvent_Commit(HAL_OK, HAL_OK)
  \/ FrameEvent_PublishDisplay
  \/ FrameEvent_PublishCapture
  \/ \E pipe \in Pipes : cb_pc = "idle" /\ VsyncEvent_Entry(pipe)
  \/ VsyncEvent_Put
  \/ Reader_ReadDisplay
  \/ Reader_ReadCapture

SpecRun == InitRun /\ [][NextRun]_vars

\* ------------------------------------------------------------------------
\* SpecConc: UI_Update on the UI thread, UI_SetVisible(0) on another thread
\* ------------------------------------------------------------------------
NextConc ==
  \/ UI_Init
  \/ UI_Update_Entry
  \/ UI_SetLayerAddress
  \/ UI_Update_FillRect
  \/ UI_Update_Draw
  \/ UI_SetDisplayIndex
  \/ UI_ReloadLayer
  \/ Other_SetVisible_Entry
  \/ Other_SetLayerAddress
  \/ Other_Memset
  \/ Other_SetDisplayIndex
  \/ Other_ReloadLayer

SpecConc == InitUi /\ [][NextConc]_vars

\* ------------------------------------------------------------------------
\* Properties of the capture ring (Spec)
\* ------------------------------------------------------------------------
RingIdle == cb_pc = "idle"

\* C1: for every N = DISPLAY_BUFFER_NB >= 3, from display = 1, capture = 0,
\* camera_display_idx differs from camera_capture_idx after every pipe-1
\* frame-complete callback (whenever no callback is in progress).
C1_DisplayDiffersFromCapture ==
  (DISPLAY_BUFFER_NB >= 3 /\ RingIdle) =>
    camera_display_idx # camera_capture_idx

\* reached: the ring has gone all the way round and a callback just returned
C1_Witness ==
  /\ RingIdle
  /\ frames > DISPLAY_BUFFER_NB
  /\ cb_published = {"display_idx", "capture_idx"}

\* C2: from the start of capture onward the slot the capture hardware is
\* targeted at is never the slot configured on the camera display layer.
C2_CaptureTargetNotDisplayed ==
  capture_on => dcmipp_pipe1_addr # ltdc_layer0_addr

\* C3: at the moment of the redirect, next_capture's slot is not the slot
\* display_index references.
C3_RedirectToFreeSlot ==
  (cb_pc = "redirect") =>
    Buffer_GetCameraDisplayBuffer(next_capt)
      # Buffer_GetCameraDisplayBuffer(camera_display_idx)

C5_FailFastOnRedirectFailure ==
  (cb_redirect \in {HAL_ERROR, "no_handle"}) =>
    /\ halted \/ cb_pc = StepAfter("redirect")
    /\ ~cb_commit_issued
    /\ cb_published = {}

\* C6: whenever the callback publishes an index, the redirect and the
\* display commit of the same invocation have both taken effect.
C6_NeverPartiallyApplied ==
  (cb_published # {}) =>
    /\ cb_redirect = HAL_OK
    /\ cb_commit_issued /\ cb_commit_ret = 0

\* C7: after k pipe-1 frame-complete callbacks display = (1 + k) mod N and
\* capture = k mod N; with N = 3 the states are (2,1), (0,2), (1,0), and
\* the initial state returns after exactly N callbacks.
C7_IndicesAfterKCallbacks ==
  RingIdle =>
    /\ camera_display_idx = (1 + frames) % DISPLAY_BUFFER_NB
    /\ camera_capture_idx = frames % DISPLAY_BUFFER_NB
    /\ (DISPLAY_BUFFER_NB = 3 /\ frames = 1) =>
         <<camera_display_idx, camera_capture_idx>> = <<2, 1>>
    /\ (DISPLAY_BUFFER_NB = 3 /\ frames = 2) =>
         <<camera_display_idx, camera_capture_idx>> = <<0, 2>>
    /\ (DISPLAY_BUFFER_NB = 3 /\ frames = 3) =>
         <<camera_display_idx, camera_capture_idx>> = <<1, 0>>
    /\ (<<camera_display_idx, camera_capture_idx>> = <<1, 0>>) <=>
         (frames % DISPLAY_BUFFER_NB = 0)

\* reached: N = 3 and the third callback has brought the ring back to (1,0)
C7_Witness ==
  /\ RingIdle
  /\ DISPLAY_BUFFER_NB = 3
  /\ frames = 3
  /\ camera_display_idx = 1 /\ camera_capture_idx = 0

\* ------------------------------------------------------------------------
\* Properties of the buffer API (SpecApi)
\* ------------------------------------------------------------------------
\* C8: next(index) = (index + 1) mod N maps [0, N) into [0, N); applied N
\* times to a valid index it returns that index, applied 1 .. N-1 times it
\* does not.
C8_NextClosesCycle ==
  (api_op = "next") =>
    /\ api_next[1] \in Slots /\ api_next[2] \in Slots
    /\ camera_display_idx = api_next[1] /\ camera_capture_idx = api_next[2]
    /\ (camera_display_idx = api_start[1]) <=>
         (api_iter % DISPLAY_BUFFER_NB = 0)
    /\ (camera_capture_idx = api_start[2]) <=>
         (api_iter % DISPLAY_BUFFER_NB = 0)

\* reached: next applied exactly N times from a start other than (1,0)
C8_Witness ==
  /\ api_op = "next"
  /\ api_iter = DISPLAY_BUFFER_NB
  /\ api_start = <<0, DISPLAY_BUFFER_NB - 1>>
  /\ <<camera_display_idx, camera_capture_idx>> = api_start

\* C9: Buffer_GetCameraDisplayBuffer(idx) is the handle of slot idx for
\* 0 <= idx < N, a handle no other index yields, and NULL for every other
\* int, negative ones included.
C9_LookupBoundsChecked ==
  (api_op = "get") =>
    IF 0 <= api_arg /\ api_arg < DISPLAY_BUFFER_NB
      THEN /\ api_ret = [region |-> "camera_display_buffers", slot |-> api_arg]
           /\ api_ret # NULL
           /\ \A j \in Slots \ {api_arg} :
                Buffer_GetCameraDisplayBuffer(j) # api_ret
      ELSE api_ret = NULL

\* reached: a lookup with a negative index has returned NULL
C9_Witness ==
  /\ api_op = "get"
  /\ api_arg < 0
  /\ api_ret = NULL

\* C10: Buffer_Init called in any ring state leaves every capture slot
\* zeroed and display = 1, capture = 0 (a non-equal pair); a second call
\* right after the first changes nothing.
RingState == <<camera_display_buffers, ui_buffer, camera_display_idx,
               camera_capture_idx>>

C10_BufferInitResets ==
  [][ (api_inits' = api_inits + 1) =>
        /\ \A i \in Slots : camera_display_buffers'[i] = 0
        /\ camera_display_idx' = 1
        /\ camera_capture_idx' = 0
        /\ camera_display_idx' # camera_capture_idx'
        /\ (api_op = "init") => (RingState' = RingState) ]_vars

\* reached: Buffer_Init has been called twice in a row
C10_Witness ==
  /\ api_op = "init"
  /\ api_inits = 2
  /\ \A i \in Slots : camera_display_buffers[i] = 0
  /\ camera_display_idx = 1 /\ camera_capture_idx = 0

\* ------------------------------------------------------------------------
\* Properties of the vsync handoff (SpecIsp, SpecIspFair)
\* ------------------------------------------------------------------------
\* C11: vsync signals are coalesced: the pending count of the ISP vsync
\* signal never exceeds 1, so k >= 2 pipe-1 vsync callbacks that occur
\* before the ISP thread consumes the signal cause one tuning pass, not k.
C11_VsyncCoalesced == vsync_sem.count <= 1

C13_PassOnlyAfterSignal ==
  /\ (vsync_sem.created /\ vsyncs = 0) => vsync_sem.count = 0
  /\ (vsyncs = 0) =>
       /\ isp_passes = 0
       /\ isp_thread \notin {"CAM_IspUpdate", "CMW_CAMERA_Run"}
  /\ isp_passes <= vsyncs

\* reached: every vsync delivered so far has had its pass, and the thread
\* waits for the next one
C13_Witness ==
  /\ vsyncs >= 2
  /\ isp_passes = vsyncs
  /\ isp_thread = "suspended"

\* C14: under fair scheduling of the ISP thread, the k-th pipe-1 vsync
\* callback is eventually followed by a tuning pass that starts after it
\* (unless a failed assertion has stopped the system): no signal stays
\* pending for ever.
C14_VsyncLeadsToPass ==
  \A k \in 1 .. MaxVsyncs :
    (vsyncs = k) ~> (halted \/ isp_pass_vsyncs >= k)

\* reached: the latest pass started after the latest of several vsyncs
C14_Witness ==
  /\ vsyncs >= 2
  /\ isp_pass_vsyncs = vsyncs
  /\ isp_passes >= 2
  /\ ~halted

\* ------------------------------------------------------------------------
\* Properties of the UI double buffer (SpecUi)
\* ------------------------------------------------------------------------
\* the call in progress has executed statement `step`
UiDid(step) == \E i \in DOMAIN ui_log : ui_log[i] = step

\* it executed statement a, and later statement b
UiBefore(a, b) ==
  \E i, j \in DOMAIN ui_log : i < j /\ ui_log[i] = a /\ ui_log[j] = b

\* statements that write pixels of a slot / hand a slot to layer 1
UiWrites == {"UTIL_LCD_FillRect", "UTIL_LCD_draw", "memset"}

UiHandOvers == {"LCD_SetUILayerAddress", "LCD_ReloadUILayer"}

\* a call that swapped the buffers has returned
UiSwapDone ==
  /\ ui_pc = "idle"
  /\ ui_op \in {"UI_Update", "UI_SetVisible_hide"}
  /\ UiDid("Buffer_SetUIDisplayIndex")

UiTransparent(content) == content.panel = {} /\ content.rest = {}

\* C15: after every UI swap the address committed to the UI layer is the
\* slot that was front before that swap; from front = 0 one swap leaves
\* front = 1 and the committed address equal to slot 0's address.
C15_CommittedIsPreviousFront ==
  UiSwapDone =>
    /\ ltdc_layer1_addr = UiSlotPtr(ui_front0)
    /\ (ui_front0 = 0) =>
         (ui_display_idx = 1 /\ ltdc_layer1_addr = UiSlotPtr(0))

\* C16: in a UI swap, after the draw completes, (a) the back slot's address
\* is committed to the layer, (b) the reload at vertical blanking is
\* requested, and only then (c) the front index is flipped.
C16_CommitReloadThenFlip ==
  UiDid("Buffer_SetUIDisplayIndex") =>
    /\ \A w \in UiWrites :
         UiDid(w) => UiBefore(w, "LCD_SetUILayerAddress")
    /\ UiBefore("LCD_SetUILayerAddress", "LCD_ReloadUILayer")
    /\ UiBefore("LCD_ReloadUILayer", "Buffer_SetUIDisplayIndex")

\* C17: in UI_Update and UI_SetVisible(0) a slot's address is handed to the
\* UI layer (LCD_SetUILayerAddress or LCD_ReloadUILayer) only after all
\* drawing or clearing of that slot for the current call has finished.
C17_OnlyDrawnSlotHandedOver ==
  \A i \in DOMAIN ui_log :
    (ui_log[i] \in UiHandOvers) =>
      /\ \E j \in 1 .. (i - 1) : ui_log[j] \in {"UTIL_LCD_draw", "memset"}
      /\ \A j \in DOMAIN ui_log : (ui_log[j] \in UiWrites) => j < i

\* C18: during one UI_Update every write goes to the back slot (front ^ 1,
\* front as it is when the update starts): the front slot's contents do
\* not change, and the front index changes only once, by the flip that
\* follows the last write.
C18_UpdateWritesBackOnly ==
  [][ (ui_op' = "UI_Update") =>
        /\ ui_display_buffers'[ui_front0'] = ui_display_buffers[ui_front0']
        /\ (ui_display_idx' # ui_display_idx) =>
             /\ ui_pc = "Buffer_SetUIDisplayIndex"
             /\ ~UiDid("Buffer_SetUIDisplayIndex")
             /\ UiDid("UTIL_LCD_draw")
             /\ ui_display_idx = ui_front0
             /\ ui_display_idx' = Xor1(ui_front0) ]_vars

\* reached: an update returned that drew a new frame into the back slot
\* while the front slot held an earlier frame
C18_Witness ==
  /\ UiSwapDone
  /\ ui_op = "UI_Update"
  /\ ui_display_idx = Xor1(ui_front0)
  /\ ui_display_buffers[ui_display_idx].panel = {ui_frame}
  /\ ui_display_buffers[ui_front0].panel = {ui_frame - 1}
  /\ ui_frame >= 2

C20_HideTwice ==
  /\ (ui_pc = "memset") => ui_buffer_ptr # NULL
  /\ (/\ ui_op = "UI_SetVisible_hide"
      /\ ui_prev_op = "UI_SetVisible_hide"
      /\ ui_pc = "idle") =>
       /\ g_ui_visible = 0
       /\ ~halted
       /\ UiDid("LCD_ReloadUILayer")
       /\ ltdc_layer1_addr # NULL
       /\ UiTransparent(ui_display_buffers[ltdc_layer1_addr.slot])

\* reached: the overlay was drawn, then hidden twice; both slots are clear
C20_Witness ==
  /\ ui_op = "UI_SetVisible_hide"
  /\ ui_prev_op = "UI_SetVisible_hide"
  /\ ui_pc = "idle"
  /\ ui_frame >= 1
  /\ g_ui_visible = 0
  /\ \A i \in UiSlots : UiTransparent(ui_display_buffers[i])

\* ------------------------------------------------------------------------
\* Properties of the CPU load sampler (SpecLoad)
\* ------------------------------------------------------------------------
\* The outputs in load_info were computed from g_cpu_load by the latest
\* sampler tick (before the first one both are the zeroed history's).

\* the entries each output is computed from: <<output, newer, older>>
LoadWindows ==
  {<<"cpu_load_last", 0, 1>>, <<"cpu_load_last_second", 2, 3>>,
   <<"cpu_load_last_five_seconds", 2, 7>>}

\* C21: when the total-cycle difference of an output's two entries is zero
\* (instantaneous 0/1, one-second 2/3, five-second 2/7), the output is
\* exactly 0 and no division was executed.
C21_ZeroDeltaGivesZero ==
  \A w \in LoadWindows :
    (g_cpu_load[w[2]].total = g_cpu_load[w[3]].total) =>
      load_info[w[1]] = LoadResult(FZero, FALSE)

\* reached: two ticks with no cycle between them, long after the counter
\* started, and no decimation yet that would separate entries 2, 3 and 7
C21_Witness ==
  /\ samples >= 2
  /\ g_cpu_load[0].total # 0
  /\ \A w \in LoadWindows : g_cpu_load[w[2]].total = g_cpu_load[w[3]].total

\* |x| * 2^8 rounded down, for a float with |x| < 2^23
Scaled256(x) ==
  IF x.m = 0 \/ (-x.e) - 8 >= 31 THEN 0
  ELSE IF (-x.e) - 8 >= 0 THEN x.m \div (2 ^ ((-x.e) - 8))
  ELSE x.m * (2 ^ (x.e + 8))

F50 == [s |-> 0, m |-> 13107200, e |-> -18]
F100 == [s |-> 0, m |-> 13107200, e |-> -17]

\* largest difference for which the quotient is compared in integers
MaxExactDelta == 64

\* the history of the example: (1000, 500) sampled, then (2000, 1000)
ExampleHistory ==
  [i \in HistorySlots |->
     IF i = 0 THEN HistoryEntry(2000, 1000, 20, 0, 0)
     ELSE IF i = 1 THEN HistoryEntry(1000, 500, 10, 0, 0)
     ELSE HistoryZero]

\* C22: when total_delta = history[0].total - history[1].total is not zero,
\* the instantaneous load is 100 * (1 - idle_delta / total_delta), with
\* idle_delta = history[0].idle - history[1].idle, evaluated in float: it is
\* 100 when idle_delta is 0, 0 when the deltas are equal, not negative when
\* idle_delta < total_delta, and for deltas up to MaxExactDelta within 2/256
\* of the exact quotient; the samples (1000, 500) then (2000, 1000) give 50.
C22_InstantLoadFormula ==
  /\ UI_CPULoad_GetInstant(ExampleHistory) = LoadResult(F50, TRUE)
  /\ LET total_delta == Sub32(g_cpu_load[0].total, g_cpu_load[1].total)
         idle_delta == Sub32(g_cpu_load[0].idle, g_cpu_load[1].idle)
         load == load_info.cpu_load_last
         signed == IF load.pct.s = 1 THEN -Scaled256(load.pct)
                   ELSE Scaled256(load.pct)
         exact == 25600 * (total_delta - idle_delta)
     IN  (g_cpu_load[0].total # g_cpu_load[1].total) =>
           /\ load.div
           /\ load.pct # FNotFinite
           /\ (idle_delta = 0) => load.pct = F100
           /\ (idle_delta = total_delta) => load.pct = FZero
           /\ Less32(idle_delta, total_delta) => load.pct.s = 0
           /\ (/\ total_delta > 0 /\ total_delta <= MaxExactDelta
               /\ idle_delta >= 0 /\ idle_delta <= MaxExactDelta) =>
                /\ signed * total_delta - exact <= 2 * total_delta
                /\ exact - signed * total_delta <= 2 * total_delta

\* reached: two ticks 4 cycles apart, 2 of them idle: the load is 50
C22_Witness ==
  /\ samples >= 2
  /\ Sub32(g_cpu_load[0].total, g_cpu_load[1].total) = 4
  /\ Sub32(g_cpu_load[0].idle, g_cpu_load[1].idle) = 2
  /\ load_info.cpu_load_last = LoadResult(F50, TRUE)

\* C23: every sampler tick moves the entry that was in slot 0 into slot 1
\* and stores the current cycle counter, idle accumulator and tick value
\* in slot 0.
C23_TickShiftsSlots ==
  [][(samples' = samples + 1) =>
       /\ g_cpu_load'[1] = g_cpu_load[0]
       /\ g_cpu_load'[0].total = DWT_CYCCNT
       /\ g_cpu_load'[0].idle = g_idle_cycles_total
       /\ g_cpu_load'[0].tick = uwTick]_vars

\* reached: two ticks at different times, the older one now in slot 1
C23_Witness ==
  /\ samples >= 2
  /\ g_cpu_load[0].total = DWT_CYCCNT
  /\ g_cpu_load[1].total # g_cpu_load[0].total
  /\ g_cpu_load[1].tick # g_cpu_load[0].tick
  /\ g_cpu_load[1].tick # g_cpu_load[2].tick

C25_HooksGuarded ==
  [][/\ (g_in_idle # 0) =>
          /\ g_idle_enter_cycle' = g_idle_enter_cycle
          /\ (g_in_idle' # 0 => g_idle_cycles_total' = g_idle_cycles_total)
     /\ (g_in_idle = 0) =>
          /\ g_idle_cycles_total' = g_idle_cycles_total
          /\ (g_in_idle' # 0 => g_idle_enter_cycle' = DWT_CYCCNT)
     /\ (g_idle_cycles_total' # g_idle_cycles_total) =>
          /\ g_in_idle # 0
          /\ g_in_idle' = 0]_vars

\* reached: Enter was called while in idle, cycles after the entry it did
\* not overwrite
C25_Witness ==
  /\ hook_noop = "UI_IdleThread_Enter"
  /\ g_in_idle # 0
  /\ g_idle_enter_cycle # DWT_CYCCNT

\* C26: as long as neither counter has passed 2^32 the history is ordered by
\* age: for i < j, history[i].total >= history[j].total and
\* history[i].idle >= history[j].idle.
C26_HistoryOrdered ==
  (cyc_wraps = 0 /\ idle_wraps = 0) =>
    \A i, j \in HistorySlots :
      (i < j) =>
        /\ ~Less32(g_cpu_load[i].total, g_cpu_load[j].total)
        /\ ~Less32(g_cpu_load[i].idle, g_cpu_load[j].idle)

\* reached: a tick on a full history, with no wrap: the entries 0, 1, 3
\* and 7 hold four different cycle counts
C26_Witness ==
  /\ samples >= 1
  /\ cyc_wraps = 0
  /\ idle_wraps = 0
  /\ Less32(g_cpu_load[1].total, g_cpu_load[0].total)
  /\ Less32(g_cpu_load[3].total, g_cpu_load[1].total)
  /\ Less32(g_cpu_load[7].total, g_cpu_load[3].total)
  /\ Less32(g_cpu_load[1].idle, g_cpu_load[0].idle)

\* a uint32_t as two 16-bit digits <<high, low>>
Digits16(x) ==
  LET u == ToUnsigned(x)
  IN  <<u[1] * 32768 + (u[2] \div 65536), u[2] % 65536>>

\* delta + older = newer + wraps * 2^32, added digit by digit
IsTrueDifference(delta, newer, older, wraps) ==
  LET d == Digits16(delta)
      n == Digits16(newer)
      o == Digits16(older)
      low == d[2] + o[2]
      high == (d[1] + o[1]) + (low \div 65536)
  IN  /\ low % 65536 = n[2]
      /\ high % 65536 = n[1]
      /\ high \div 65536 = wraps

\* the value of a uint32_t below 2^31
Value31(x) == ToUnsigned(x)[2]

\* C27: the deltas tolerate one wrap of a counter between the two samples:
\* when the counter passed 2^32 at most once between them and the true
\* difference is below 2^32, the delta computed is the true difference, and
\* the load is the one the true differences give.
C27_WrapTolerated ==
  \A w \in LoadWindows :
    LET newer == g_cpu_load[w[2]]
        older == g_cpu_load[w[3]]
        total_wraps == newer.cw - older.cw
        idle_wraps_between == newer.iw - older.iw
        total_delta == Sub32(newer.total, older.total)
        idle_delta == Sub32(newer.idle, older.idle)
        OneWrapAtMost(wraps, n, o) ==
          \/ wraps = 0 /\ ~Less32(n, o)
          \/ wraps = 1 /\ Less32(n, o)
    IN  /\ OneWrapAtMost(total_wraps, newer.total, older.total) =>
             IsTrueDifference(total_delta, newer.total, older.total,
                              total_wraps)
        /\ OneWrapAtMost(idle_wraps_between, newer.idle, older.idle) =>
             IsTrueDifference(idle_delta, newer.idle, older.idle,
                              idle_wraps_between)
        /\ (/\ total_wraps = 1
            /\ Less32(newer.total, older.total)
            /\ older.total < 0
            /\ newer.total >= 0
            /\ OneWrapAtMost(idle_wraps_between, newer.idle, older.idle)
            /\ idle_delta >= 0) =>
             \* true total difference: (2^32 - older) + newer
             load_info[w[1]] =
               LoadResult(LoadPct(idle_delta,
                                  ((INT_MAX - Value31(older.total)) + 1)
                                    + Value31(newer.total)), TRUE)

\* reached: the cycle counter passed 2^32 between the two latest ticks
C27_Witness ==
  /\ samples >= 1
  /\ g_cpu_load[0].cw = g_cpu_load[1].cw + 1
  /\ Less32(g_cpu_load[0].total, g_cpu_load[1].total)
  /\ load_info.cpu_load_last.div

\* C29: the instantaneous load is within 0..100: for two consecutive
\* sampler ticks, taken at different cycle counts, idle_delta <= total_delta
\* and the load is not negative, whatever the interleaving of the sampler
\* with the hooks idle_measure_thread_entry calls.
C29_InstantLoadInRange ==
  (/\ hook_caller = "idle_measure_thread_entry"
   /\ g_cpu_load[0].total # g_cpu_load[1].total) =>
    /\ ~Less32(Sub32(g_cpu_load[0].total, g_cpu_load[1].total),
               Sub32(g_cpu_load[0].idle, g_cpu_load[1].idle))
    /\ load_info.cpu_load_last.pct.s = 0

\* ------------------------------------------------------------------------
\* Startup errors (Spec)
\* ------------------------------------------------------------------------
\* the startup routine has returned to its caller or reached its end
BootFinished == boot \in {"returned_error", "running", "halted"}

\* C28: when a call of the startup routine has returned a failure status
\* (LCD init, vsync semaphore creation, camera init, ISP thread creation),
\* the routine reports failure to its caller and the capture pipe is never
\* started.
C28_InitErrorsPropagate ==
  (boot_errors # {}) =>
    /\ ~capture_on
    /\ boot # "CAM_DisplayPipe_Start"
    /\ BootFinished => boot = "returned_error"

\* ------------------------------------------------------------------------
\* UI double buffer with two callers (SpecConc)
\* ------------------------------------------------------------------------
\* C30: whatever the interleaving of UI_Update on the UI thread with
\* UI_SetVisible(0) called from another thread, once both have finished the
\* front index names the slot last committed to the UI layer and that slot
\* is fully transparent.
C30_ConsistentWithoutLock ==
  (/\ sv_calls >= 1
   /\ sv_pc = "idle"
   /\ ui_pc = "idle"
   /\ g_ui_initialized # 0) =>
    /\ ltdc_layer1_reload = UiSlotPtr(ui_display_idx)
    /\ UiTransparent(ui_display_buffers[ui_display_idx])

\* ------------------------------------------------------------------------
\* Idle residency (SpecIdle)
\* ------------------------------------------------------------------------
\* C31: the idle accumulator grows only by cycles in which the idle-measure
\* thread itself held the processor: from reset on it never exceeds the
\* number of those cycles, so cycles of a thread or handler that preempted
\* it between UI_IdleThread_Enter and UI_IdleThread_Exit are not in it.
C31_OnlyOwnCyclesCounted ==
  g_idle_cycles_total <= idle_held_cycles

\* ------------------------------------------------------------------------
\* Readers of the ring indices, events of other pipes (SpecRun)
\* ------------------------------------------------------------------------
\* a thread has read display_idx and then capture_idx
ReadPairDone == reader.pc = "idle" /\ reader.reads >= 1

\* C32 as stated: two separate reads of camera_display_idx and then
\* camera_capture_idx always give two different values, also with a pipe-1
\* frame-complete callback between them.
C32_TwoReadsDiffer ==
  ReadPairDone => reader.display # reader.capture

\* C32 amended: both values read are in [0, N); with k pipe-1 callbacks
\* between the two reads the second is (first - 1 + k) mod N, so the values
\* differ when no callback ran between the reads and are equal when
\* k = 1 (mod N).
C32_ReadsDifferWithoutCallback ==
  ReadPairDone =>
    /\ reader.display \in Slots
    /\ reader.capture \in Slots
    /\ reader.capture =
         (reader.display + (DISPLAY_BUFFER_NB - 1) + reader.between)
           % DISPLAY_BUFFER_NB
    /\ (reader.between = 0) => reader.display # reader.capture

\* reached: a pair of reads with no callback between and, before it, a
\* pair with one callback between that read the same value twice
C32_Witness ==
  /\ ReadPairDone
  /\ reader.reads = 2
  /\ reader.between = 0
  /\ reader.display # reader.capture
  /\ frames >= 1

\* C35: events of other pipes are ignored: a frame-complete callback for a
\* pipe other than pipe 1 returns at once and changes neither the hardware
\* write target, nor the address of the display layer, nor the two indices;
\* a vsync callback for such a pipe returns at once and leaves the ISP
\* semaphore and the ISP thread as they were.
C35_OtherPipesIgnored ==
  [][/\ (cb_pipe' # cb_pipe /\ cb_pipe' # DCMIPP_PIPE1) =>
          /\ cb_pc' = "idle"
          /\ UNCHANGED <<dcmipp_pipe1_addr, ltdc_layer0_addr,
                         camera_display_idx, camera_capture_idx, frames,
                         vsync_sem, isp_thread>>
     /\ (vs_pipe' # vs_pipe /\ vs_pipe' # DCMIPP_PIPE1) =>
          /\ vs_pc' = "idle"
          /\ UNCHANGED <<vsync_sem, isp_thread, dcmipp_pipe1_addr,
                         ltdc_layer0_addr, camera_display_idx,
                         camera_capture_idx>>]_vars

\* reached: after frames and signals of pipe 1, the latest frame event and
\* the latest vsync event were both of pipe 2
C35_Witness ==
  /\ cb_pipe = DCMIPP_PIPE2
  /\ vs_pipe = DCMIPP_PIPE2
  /\ cb_pc = "idle"
  /\ vs_pc = "idle"
  /\ frames >= 1
  /\ vsync_sem.count >= 1

\* ------------------------------------------------------------------------
\* The slot on the display layer and the display index (Spec)
\* ------------------------------------------------------------------------
\* C33: from the end of startup onward, whenever no frame-complete callback
\* is in progress, camera_display_idx names the slot whose address is
\* configured on the camera display layer, also right after LCD_Init and
\* Buffer_Init, before the first frame completes.
C33_DisplayIdxNamesShownSlot ==
  (boot = "running" /\ ~halted /\ lcd_initialized = 1 /\ RingIdle) =>
    ltdc_layer0_addr = SlotPtr(camera_display_idx)

\* ------------------------------------------------------------------------
\* Order of the startup sequence (Spec)
\* ------------------------------------------------------------------------
\* LCD_Init has returned: the LCD is up, or its failure status was handed
\* to a startup routine that went on
LCD_InitReturned == lcd_initialized = 1 \/ "LCD_Init" \in boot_errors

\* the capture pipe has been started, or one of its events has been handled
CaptureStarted ==
  capture_on \/ cb_pc # "idle" \/ frames > 0 \/ vs_pc # "idle" \/ vsyncs > 0

\* C39: in the startup sequence Buffer_Init, LCD_Init and the creation of
\* the ISP vsync semaphore complete before the capture pipe is started: at
\* the call of CAM_DisplayPipe_Start the ring is initialised, LCD_Init has
\* returned and the semaphore exists with no instance, and no pipe-1 frame
\* or vsync callback runs before that.
C39_CaptureStartsAfterInit ==
  /\ (boot = "CAM_DisplayPipe_Start") =>
       /\ RingInitialised
       /\ LCD_InitReturned
       /\ vsync_sem = [created |-> TRUE, count |-> 0]
       /\ ~CaptureStarted
  /\ CaptureStarted =>
       /\ boot = "running"
       /\ LCD_InitReturned
       /\ vsync_sem.created
       /\ camera_display_idx \in Slots
       /\ camera_capture_idx \in Slots

\* reached: the capture runs after a complete startup and a pipe-1 frame
\* has completed
C39_Witness ==
  /\ capture_on
  /\ boot = "running"
  /\ frames >= 1
  /\ vsync_sem.created
  /\ lcd_initialized = 1

\* ------------------------------------------------------------------------
\* Index setters and LCD functions (SpecCalls)
\* ------------------------------------------------------------------------
\* the setter `op` of the index that goes from `old` to `new`, with its
\* valid range: it was called with api_arg' and returned api_status'
SetterChecked(op, old, new, range) ==
  (api_op' = op) =>
    IF api_arg' \in range
      THEN api_status' = 0 /\ new = api_arg'
      ELSE api_status' = -1 /\ new = old

\* C36: the index setters reject out-of-range values:
\* Buffer_SetCameraDisplayIndex and Buffer_SetCameraCaptureIndex called
\* with idx outside [0, N), and Buffer_SetUIDisplayIndex called with idx
\* outside {0, 1}, negative values included, return -1 and leave the index
\* unchanged; with a valid idx they return 0 and store it. Hence the three
\* indices are always in range.
C36_SettersRejectOutOfRange ==
  [][/\ SetterChecked("Buffer_SetCameraDisplayIndex", camera_display_idx,
                      camera_display_idx', Slots)
     /\ SetterChecked("Buffer_SetCameraCaptureIndex", camera_capture_idx,
                      camera_capture_idx', Slots)
     /\ SetterChecked("Buffer_SetUIDisplayIndex", ui_display_idx,
                      ui_display_idx', UiSlots)
     /\ camera_display_idx' \in Slots
     /\ camera_capture_idx' \in Slots
     /\ ui_display_idx' \in UiSlots]_vars

\* reached: each index holds a stored value other than its initial one and
\* the last call, with a negative idx, was rejected
C36_Witness ==
  /\ api_op = "Buffer_SetUIDisplayIndex"
  /\ api_arg < 0
  /\ api_status = -1
  /\ ui_display_idx = 1
  /\ camera_display_idx = DISPLAY_BUFFER_NB - 1
  /\ camera_capture_idx = DISPLAY_BUFFER_NB - 1

\* C38: LCD_ReloadCameraLayer programs the camera layer only while the LCD
\* is initialised (after a successful LCD_Init, before LCD_DeInit) and the
\* buffer is non-NULL; otherwise it returns -1 and leaves the layer address
\* unchanged. A failed LCD_Init leaves the LCD uninitialised; LCD_Init
\* called again after a success returns 0 without reconfiguring.
C38_ReloadOnlyWhileInitialised ==
  [][/\ (api_op' = "LCD_ReloadCameraLayer") =>
          /\ UNCHANGED lcd_initialized
          /\ IF lcd_initialized = 1 /\ api_ret' # NULL
               THEN /\ api_status' # -1
                    /\ (api_status' = 0) => ltdc_layer0_addr' = api_ret'
                    /\ ltdc_layer0_addr' \in {ltdc_layer0_addr, api_ret'}
               ELSE /\ api_status' = -1
                    /\ UNCHANGED ltdc_layer0_addr
     /\ (api_op' = "LCD_Init") =>
          /\ lcd_initialized' = (IF api_status' = 0 THEN 1 ELSE 0)
          /\ (lcd_initialized = 1) =>
               /\ api_status' = 0
               /\ UNCHANGED <<lcd_initialized, ltdc_layer0_addr>>
     /\ (api_op' = "LCD_DeInit") => lcd_initialized' = 0
     /\ (lcd_initialized' = 1 /\ lcd_initialized = 0) =>
          api_op' = "LCD_Init" /\ api_status' = 0]_vars

\* reached: after a successful LCD_Init, LCD_ReloadCameraLayer returned 0
\* and the layer shows the buffer handed to it, not the one of LCD_Init
C38_Witness ==
  /\ api_op = "LCD_ReloadCameraLayer"
  /\ api_status = 0
  /\ lcd_initialized = 1
  /\ ltdc_layer0_addr = api_ret
  /\ api_ret # Buffer_GetCameraDisplayBuffer(0)

\* ------------------------------------------------------------------------
\* The overlay hidden, the one-second window (SpecOverlay)
\* ------------------------------------------------------------------------
\* C34: once at least two decimations have happened, the one-second window
\* spans a second: history[2].tick - history[3].tick >= 1000 ms, for any
\* spacing of the sampler ticks, long gaps between ticks included (for
\* example while the overlay is hidden).
C34_WindowSpansASecond ==
  (decimations >= 2) =>
    UnsignedGE(ToUnsigned(Sub32(g_cpu_load[2].tick, g_cpu_load[3].tick)),
               1000)

\* C37: UI_Update called while the overlay is hidden or before UI_Init
\* changes nothing: no sample is recorded in the CPU load history, the
\* reported loads stay at their last values, nothing is drawn, and the UI
\* front index and the address of the UI layer are unchanged.
C37_DisabledUpdateChangesNothing ==
  [][(/\ ui_pc = "idle"
      /\ ui_op' = "UI_Update"
      /\ (g_ui_initialized = 0 \/ g_ui_visible = 0)) =>
       /\ ui_pc' = "idle"
       /\ UNCHANGED <<g_cpu_load, g_last_history_update_tick, decimations,
                      samples, load_info, ui_display_buffers, ui_display_idx,
                      ltdc_layer1_addr, ltdc_layer1_reload, ui_frame,
                      g_ui_visible, g_ui_initialized>>]_vars

\* reached: the overlay was hidden, a second passed and UI_Update was
\* called: the newest sample is still the one from before
C37_Witness ==
  /\ ui_pc = "idle"
  /\ ui_op = "UI_Update"
  /\ ui_prev_op = "UI_SetVisible_hide"
  /\ g_ui_initialized = 1
  /\ g_ui_visible = 0
  /\ DecimationDue(uwTick)
  /\ g_cpu_load[0].tick # uwTick
  /\ UiTransparent(ui_display_buffers[ui_display_idx])

====
